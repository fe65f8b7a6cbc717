------------------------------ MODULE Fanout --------------------------------
(***************************************************************************)
(* Sends to every device of a contact (multidevice/fanout.go) and the      *)
(* removal of sessions with revoked devices (multidevice/revocation.go).   *)
(*                                                                         *)
(* Several goroutines send at a time.  Each send comes to an Encrypt whose *)
(* arguments are in another order than its parameters (sendToDevice,       *)
(* sendWithSymmetricKey): the 32-byte key stands where the 24-byte nonce   *)
(* belongs, so that every send ends there with an error and nothing after  *)
(* it ever happens.  What is left are the sessions and keys made before.   *)
(***************************************************************************)
EXTENDS Integers, Sequences, FiniteSets, SequencesExt

CONSTANTS
  Device,         \* devices of the recipient
  Thread,         \* goroutines that send
  SymmetricFrom,  \* number of devices from which one key is used for all
  MaxSends        \* bound: sends

VARIABLES
  sessions,   \* sessions[d]: the number of the session, 0 if there is none
  symKey,     \* the symmetric key of the recipient, 0 if there is none
  thread,     \* thread[t]: what it is about to do, and the devices it has left
  made,       \* sessions and keys made so far
  sends,      \* sends begun
  failed,     \* sends that ended, all with an error
  gone        \* ghost: devices cleaned up that no send has named since

vars == <<sessions, symKey, thread, made, sends, failed, gone>>

Idle == [pc |-> "idle", todo |-> <<>>]

Init ==
  /\ sessions = [d \in Device |-> 0] /\ symKey = 0
  /\ thread = [t \in Thread |-> Idle]
  /\ made = [session |-> 0, key |-> 0] /\ sends = 0 /\ failed = 0 /\ gone = {}

\* SendMessageToIdentity, with the devices in any order: from SymmetricFrom of
\* them on, a key for all.
SendMessageToIdentity(t, ds) ==
  /\ thread[t] = Idle /\ sends < MaxSends /\ ds # {}
  /\ sends' = sends + 1 /\ gone' = gone \ ds
  /\ \E list \in SetToSeqs(ds) :
       thread' = [thread EXCEPT ![t] =
         [pc |-> IF Len(list) >= SymmetricFrom THEN "key" ELSE "device", todo |-> list]]
  /\ UNCHANGED <<sessions, symKey, made, failed>>

\* sendWithFanout goes on to the next device after a failure.
NextDevice(t) == thread' = [thread EXCEPT ![t] = [pc |-> "device", todo |-> Tail(thread[t].todo)]]

\* sendWithFanout after the last device: all of them failed.
AllFailed(t) ==
  /\ thread[t].pc = "device" /\ thread[t].todo = <<>>
  /\ thread' = [thread EXCEPT ![t] = Idle] /\ failed' = failed + 1
  /\ UNCHANGED <<sessions, symKey, made, sends, gone>>

\* getOrCreateSession, under the read lock; a session that is found is used,
\* in vain.
FindSession(t) ==
  /\ thread[t].pc = "device" /\ thread[t].todo # <<>>
  /\ IF sessions[Head(thread[t].todo)] # 0 THEN NextDevice(t)
     ELSE thread' = [thread EXCEPT ![t].pc = "create"]
  /\ UNCHANGED <<sessions, symKey, made, sends, failed, gone>>

\* getOrCreateSession, under the write lock: it does not look again.
CreateSession(t) ==
  /\ thread[t].pc = "create"
  /\ sessions' = [sessions EXCEPT ![Head(thread[t].todo)] = made.session + 1]
  /\ made' = [made EXCEPT !.session = @ + 1]
  /\ NextDevice(t)
  /\ UNCHANGED <<symKey, sends, failed, gone>>

\* sendWithSymmetricKey ends when it has the key.
KeyFailed(t) == thread' = [thread EXCEPT ![t] = Idle] /\ failed' = failed + 1

MutantFindSymmetricKey(t) ==
  /\ thread[t].pc = "key"
  /\ thread' = [thread EXCEPT ![t].pc = "makekey"] /\ UNCHANGED failed
  /\ UNCHANGED <<sessions, symKey, made, sends, gone>>

\* getOrCreateSymmetricKey, under the read lock ...
FindSymmetricKey(t) ==
  /\ thread[t].pc = "key"
  /\ IF symKey # 0 THEN KeyFailed(t)
     ELSE thread' = [thread EXCEPT ![t].pc = "makekey"] /\ UNCHANGED failed
  /\ UNCHANGED <<sessions, symKey, made, sends, gone>>

\* ... and under the write lock, without another look.
MakeSymmetricKey(t) ==
  /\ thread[t].pc = "makekey"
  /\ symKey' = made.key + 1 /\ made' = [made EXCEPT !.key = @ + 1]
  /\ KeyFailed(t)
  /\ UNCHANGED <<sessions, sends, gone>>

Left(t) == Range(thread[t].todo)

MutantCleanupRevokedDevices(active) ==
  /\ sessions' = [d \in Device |-> IF d \in active THEN 0 ELSE sessions[d]]
  /\ gone' = gone \cup {d \in Device \ active : \A t \in Thread : d \notin Left(t)}
  /\ UNCHANGED <<symKey, thread, made, sends, failed>>

\* CleanupRevokedDevices with a document that has these active devices.
CleanupRevokedDevices(active) ==
  /\ sessions' = [d \in Device |-> IF d \in active THEN sessions[d] ELSE 0]
  /\ gone' = gone \cup {d \in Device \ active : \A t \in Thread : d \notin Left(t)}
  /\ UNCHANGED <<symKey, thread, made, sends, failed>>

Step(t) ==
  AllFailed(t) \/ FindSession(t) \/ CreateSession(t) \/ FindSymmetricKey(t) \/ MakeSymmetricKey(t)

Next ==
  \/ \E t \in Thread : Step(t) \/ \E ds \in SUBSET Device : SendMessageToIdentity(t, ds)
  \/ \E active \in SUBSET Device : CleanupRevokedDevices(active)

Spec == Init /\ [][Next]_vars

-----------------------------------------------------------------------------
\* A session with a revoked device that was cleaned up comes back only through
\* a send that names the device and was under way then or began later
\* (CleanupRevokedDevices, getOrCreateSession).
CleanupSticks == \A d \in gone : sessions[d] = 0

\* A recipient gets at most one symmetric key for each goroutine that could
\* have missed the first, however many sends there are
\* (getOrCreateSymmetricKey).
SymmetricKeyReused == made.key <= Cardinality(Thread)

\* Concurrent sends and cleanups leave the sessions and keys they should
\* (fanout.go, revocation.go).
FanoutSound == CleanupSticks /\ SymmetricKeyReused
=============================================================================
