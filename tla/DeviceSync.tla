---------------------------- MODULE DeviceSync ------------------------------
(***************************************************************************)
(* Synchronisation of the devices of one identity (multidevice/sync.go).   *)
(*                                                                         *)
(* Goroutines of a device broadcast: the vector clock is incremented and   *)
(* read in two critical sections.  The code leaves publishing to its       *)
(* caller; here every message reaches the other devices, in any order and  *)
(* more than once.  A byte string is its length and what it stands for.    *)
(***************************************************************************)
EXTENDS Integers, Sequences, FiniteSets

CONSTANTS
  Device,        \* devices of the identity
  Asker,         \* the device that has changes and asks the others for history
  Thread,        \* goroutines of the Asker
  Main,          \* one of them; the other devices have only this one
  Contact,       \* contacts whose history is asked for
  PayloadSizes,  \* sizes of marshalled payloads
  MaxSent,       \* bound: broadcasts begun
  MaxHandled     \* bound: requests and batches of a device

VARIABLES
  vectorClock,   \* vectorClock[d][e]
  thread,        \* thread[d][t]: what the goroutine is about to do, for which message
  begun,         \* broadcasts begun
  sent,          \* messages, in the order in which they were finished
  request,       \* request[d]: historyRequests, whose keys are all the same
  results,       \* the ways HandleSyncMessage ended
  log            \* ghost: log[d], requests made and batches handled

vars == <<vectorClock, thread, begun, sent, request, results, log>>

KeySize == 32
NonceSize == 24
TagSize == 16
Bytes(n, x) == [len |-> n, of |-> x]
DeviceGroupKey == Bytes(KeySize, "key")
Nonce == Bytes(NonceSize, "nonce")
Failed == Bytes(0, "error")

\* crypto.Encrypt and Decrypt take the key, the nonce and the text.
Encrypt(key, nonce, text) ==
  IF key.len = KeySize /\ nonce.len = NonceSize
  THEN Bytes(text.len + TagSize, <<key.of, nonce.of, text.of>>) ELSE Failed
Decrypt(key, nonce, text) ==
  IF key.len = KeySize /\ nonce.len = NonceSize /\ text.of = <<key.of, nonce.of, "payload">>
  THEN Bytes(text.len - TagSize, "payload") ELSE Failed

Idle == [pc |-> "idle"]
NoRequest == [contact |-> 0, received |-> <<>>, complete |-> FALSE]

Init ==
  /\ vectorClock = [d \in Device |-> [e \in Device |-> 0]]
  /\ thread = [d \in Device |-> [t \in Thread |-> Idle]]
  /\ begun = 0 /\ sent = <<>>
  /\ request = [d \in Device |-> NoRequest]
  /\ results = {}
  /\ log = [d \in Device |-> <<>>]

\* What BroadcastSync makes before it comes to the clock.
Broadcast(d, t, type, contact, last, size) ==
  LET payload == Encrypt(DeviceGroupKey, Nonce, Bytes(size, "payload"))
  IN  /\ thread[d][t] = Idle /\ begun < MaxSent /\ payload # Failed
      /\ begun' = begun + 1
      /\ thread' = [thread EXCEPT ![d][t] =
           [pc |-> "update", dev |-> d, type |-> type, contact |-> contact, last |-> last,
            payload |-> payload, after |-> Len(sent)]]

\* BroadcastSync of a change of contacts, groups, settings or receipts.
BroadcastSync(d, t, size) ==
  /\ d = Asker /\ Broadcast(d, t, "change", 0, FALSE, size)
  /\ UNCHANGED <<vectorClock, sent, request, results, log>>

\* SendHistoryBatch.
SendHistoryBatch(d, t, c, last, size) ==
  /\ d # Asker /\ Broadcast(d, t, "batch", c, last, size)
  /\ UNCHANGED <<vectorClock, sent, request, results, log>>

\* RequestHistory: the identifier is always the same, so that the request
\* takes the place of an earlier one.
RequestHistory(d, t, c, size) ==
  /\ d = Asker /\ Broadcast(d, t, "request", c, FALSE, size)
  /\ request' = [request EXCEPT ![d] = [NoRequest EXCEPT !.contact = c]]
  /\ log' = [log EXCEPT ![d] = Append(@, <<"request", c, 0>>)]
  /\ UNCHANGED <<vectorClock, sent, results>>

MutantUpdateVectorClock(d, t) ==
  /\ thread[d][t].pc = "update"
  /\ vectorClock' = IF thread[d][t].type = "batch" THEN vectorClock
                    ELSE [vectorClock EXCEPT ![d][d] = @ + 1]
  /\ thread' = [thread EXCEPT ![d][t].pc = "get"]
  /\ UNCHANGED <<begun, sent, request, results, log>>

\* The first critical section ...
updateVectorClock(d, t) ==
  /\ thread[d][t].pc = "update"
  /\ vectorClock' = [vectorClock EXCEPT ![d][d] = @ + 1]
  /\ thread' = [thread EXCEPT ![d][t].pc = "get"]
  /\ UNCHANGED <<begun, sent, request, results, log>>

\* ... and the second, with the rest of BroadcastSync.
getVectorClock(d, t) ==
  LET m == thread[d][t]
  IN  /\ m.pc = "get"
      /\ sent' = Append(sent, [dev |-> d, type |-> m.type, contact |-> m.contact, last |-> m.last,
                               payload |-> m.payload, after |-> m.after, clock |-> vectorClock[d]])
      /\ thread' = [thread EXCEPT ![d][t] = Idle]
      /\ UNCHANGED <<vectorClock, begun, request, results, log>>

mergeVectorClock(mine, remote) ==
  [e \in Device |-> IF mine[e] < remote[e] THEN remote[e] ELSE mine[e]]

\* The arguments of Decrypt are in another order than its parameters.
HandleSyncMessage(d, i) ==
  LET m == sent[i]
      plain == Decrypt(m.payload, DeviceGroupKey, Nonce)
      result == IF m.dev = d THEN "own" ELSE IF plain = Failed THEN "error" ELSE "event"
  IN  /\ results' = results \cup {result}
      /\ vectorClock' = IF result = "event"
                        THEN [vectorClock EXCEPT ![d] = mergeVectorClock(@, m.clock)]
                        ELSE vectorClock
      /\ UNCHANGED <<thread, begun, sent, request, log>>

MutantHandleHistoryBatch(d, i) ==
  LET b == sent[i]
  IN  /\ b.type = "batch" /\ b.dev # d /\ Len(log[d]) < MaxHandled
      /\ log' = [log EXCEPT ![d] = Append(@, <<"batch", b.contact, i>>)]
      /\ request' = IF request[d].contact # 0
                    THEN [request EXCEPT ![d].received = Append(@, i),
                                         ![d].complete = @ \/ b.last]
                    ELSE request
      /\ UNCHANGED <<vectorClock, thread, begun, sent, results>>

\* HandleHistoryBatch, which the application calls with a batch.
HandleHistoryBatch(d, i) ==
  LET b == sent[i]
  IN  /\ b.type = "batch" /\ b.dev # d /\ Len(log[d]) < MaxHandled
      /\ log' = [log EXCEPT ![d] = Append(@, <<"batch", b.contact, i>>)]
      /\ request' = IF request[d].contact = b.contact
                    THEN [request EXCEPT ![d].received = Append(@, i),
                                         ![d].complete = @ \/ b.last]
                    ELSE request
      /\ UNCHANGED <<vectorClock, thread, begun, sent, results>>

Next ==
  \E d \in Device :
    \/ \E t \in IF d = Asker THEN Thread ELSE {Main} :
         \/ updateVectorClock(d, t) \/ getVectorClock(d, t)
         \/ \E size \in PayloadSizes :
              \/ BroadcastSync(d, t, size)
              \/ \E c \in Contact :
                   RequestHistory(d, t, c, size) \/ \E last \in BOOLEAN : SendHistoryBatch(d, t, c, last, size)
    \/ \E i \in 1 .. Len(sent) : HandleSyncMessage(d, i) \/ HandleHistoryBatch(d, i)

Spec == Init /\ [][Next]_vars

-----------------------------------------------------------------------------
\* A broadcast that begins after another of its device was finished carries a
\* greater count of that device, although the count is raised and read in two
\* critical sections (updateVectorClock, getVectorClock).
ClockOrdersBroadcasts ==
  \A i, j \in DOMAIN sent :
    sent[i].dev = sent[j].dev /\ j <= sent[i].after =>
      sent[j].clock[sent[j].dev] < sent[i].clock[sent[i].dev]

\* A history request holds the batches for its contact that were handled since
\* it was made, in their order, and is complete if the last is among them; it
\* has none of a request it took the place of (RequestHistory,
\* HandleHistoryBatch).
RequestHoldsItsBatches ==
  \A d \in Device :
    LET made == {k \in DOMAIN log[d] : log[d][k][1] = "request"}
        since == {k \in DOMAIN log[d] :
                    (\A l \in made : l < k) /\ log[d][k][2] = request[d].contact}
    IN  IF made = {} THEN request[d] = NoRequest
        ELSE /\ Len(request[d].received) = Cardinality(since)
             /\ \A k \in since :
                  request[d].received[Cardinality({l \in since : l <= k})] = log[d][k][3]
             /\ request[d].complete <=> \E k \in since : sent[log[d][k][3]].last

\* Broadcasts and batches of history keep their order and their place
\* (sync.go).
SyncSound == ClockOrdersBroadcasts /\ RequestHoldsItsBatches
=============================================================================
