------------------------------ MODULE History -------------------------------
(***************************************************************************)
(* Sealed messages and their history: messaging/envelope.go, outgoing.go,  *)
(* incoming.go on top of crypto/crypto.go and of the message keys of       *)
(* storage/badger.go.                                                      *)
(*                                                                         *)
(* Users send to a contact under the X25519 key they noted for it, which   *)
(* may be missing, wrong, or another one later on.  What was published is  *)
(* delivered at any time and any number of times, by PubSub and by the     *)
(* mailbox.  Keys are numbers, a user's own being its name; primitives are *)
(* ideal: what was sealed under one key opens under no other.  A clock     *)
(* that was never set counts from 0.                                       *)
(***************************************************************************)
EXTENDS Integers, Sequences, FiniteSets

CONSTANTS
  User,      \* users; also their signing and X25519 keys
  Stranger,  \* an X25519 key of none of them
  MaxSent,   \* bound: messages sent
  MaxNow,    \* bound: seconds
  MaxAdds,   \* bound: contacts entered
  MaxCopies  \* bound: entries of one conversation

VARIABLES
  now,       \* the second
  contacts,  \* contacts[u][c]: the X25519 key u has of c, 0 if none
  adds,
  network,   \* the signed envelopes that were published, in order, with the
             \* second they were sent in (history)
  db,        \* db[u][c]: stored messages of u with c
  kept       \* ghost: <<u, c, message, second>> of each successful AddMessage

vars == <<now, contacts, adds, network, db, kept>>

None == 0
\* A plaintext is a sequence; this one stands for an error.
Failed == <<>>
Placeholder == -2    \* "[Sent message]", "[Undecryptable message]"

-----------------------------------------------------------------------------
(* crypto.go                                                               *)

\* The X25519 function commutes.
ComputeSharedSecret(priv, pub) == {priv, pub}
DeriveKey(secret, info) == <<info, secret>>
Encrypt(key, nonce, plain) == [key |-> key, nonce |-> nonce, plain |-> plain]
Decrypt(key, nonce, c) == IF c.key = key /\ c.nonce = nonce THEN c.plain ELSE Failed
EncryptWithSharedSecret(secret, nonce, plain) ==
  Encrypt(DeriveKey(secret, "encryption"), nonce, plain)
DecryptWithSharedSecret(secret, nonce, c) ==
  Decrypt(DeriveKey(secret, "encryption"), nonce, c)

-----------------------------------------------------------------------------
(* envelope.go.  The n-th message has n for its text and a fresh key.      *)

generateEphemeralKeyPair(n) == 100 + n
GenerateNonce(n) == n

\* Text and timestamp.
BuildMessage(n, at) == <<n, at>>

BuildEnvelope(n, plain, pub) ==
  [eph |-> generateEphemeralKeyPair(n), nonce |-> GenerateNonce(n),
   cipher |-> EncryptWithSharedSecret(
                ComputeSharedSecret(generateEphemeralKeyPair(n), pub), GenerateNonce(n), plain)]

SignEnvelope(env, u) == [env |-> env, sender |-> u, sig |-> <<u, env>>, sealed |-> <<>>]
VerifyEnvelope(s) == s.sig = <<s.sender, s.env>>

DecryptEnvelope(env, priv) ==
  DecryptWithSharedSecret(ComputeSharedSecret(priv, env.eph), env.nonce, env.cipher)

\* The ephemeral key is kept for the sender, under the key it shares with the
\* recipient.
encryptEphemeralKey(n, priv, pub) ==
  <<Encrypt(DeriveKey(ComputeSharedSecret(priv, pub), "ephemeral-key-encryption"),
            GenerateNonce(n), <<generateEphemeralKeyPair(n)>>)>>
decryptEphemeralKey(c, priv, pub) ==
  Decrypt(DeriveKey(ComputeSharedSecret(priv, pub), "ephemeral-key-encryption"), c.nonce, c)
decryptEphemeralKeyFromEnvelope(s, priv, pub) ==
  IF s.sealed = <<>> THEN Failed ELSE decryptEphemeralKey(s.sealed[1], priv, pub)

-----------------------------------------------------------------------------
(* Storage: a message is stored under its contact, the second and its      *)
(* nonce; a second one under the same key replaces it.                     *)

MutantMessageKey(at, nonce) == <<at, 0>>

messageKey(at, nonce) == <<at, nonce>>

AddMessage(u, c, s) ==
  LET key == messageKey(now, s.env.nonce)
  IN  /\ db' = [db EXCEPT ![u][c] = {e \in @ : e.key # key} \cup {[key |-> key, env |-> s]}]
      /\ kept' = kept \cup {<<u, c, s.env.nonce, now>>}

\* The write may fail; the service only warns.
Store(u, c, s) == AddMessage(u, c, s) \/ UNCHANGED <<db, kept>>

\* In the order of the keys, those from the offset on; limit 0 is no limit.
Before(a, b) == a[1] < b[1] \/ (a[1] = b[1] /\ a[2] < b[2])
GetMessagesWithTimestamps(u, c, limit, offset) ==
  LET Position(e) == Cardinality({f \in db[u][c] : Before(f.key, e.key)})
  IN  {e \in db[u][c] : offset <= Position(e) /\ (limit = 0 \/ Position(e) < offset + limit)}

-----------------------------------------------------------------------------
(* Reading the history of a conversation: text and time of a message.      *)

isOutgoingMessage(u, sender) == sender = u

decryptWithEphemeralKey(env, priv, pub) ==
  Decrypt(DeriveKey(ComputeSharedSecret(priv[1], pub), "encryption"), env.nonce, env.cipher)

placeholderMessage(stored) == [text |-> Placeholder, at |-> stored]

\* The sender's time, and that of the storage for a message without one.
WithTime(plain, stored) ==
  [text |-> plain[1], at |-> IF plain[2] = 0 THEN stored ELSE plain[2]]

\* With the key the contact has now, which need not be the one of the message.
decryptOutgoingMessage(u, c, s, stored) ==
  LET pub == contacts[u][c]
      priv == decryptEphemeralKeyFromEnvelope(s, u, pub)
      plain == decryptWithEphemeralKey(s.env, priv, pub)
  IN  IF pub = None \/ priv = Failed \/ plain = Failed THEN placeholderMessage(stored)
      ELSE WithTime(plain, stored)

decryptIncomingMessage(u, s, stored) ==
  LET plain == DecryptEnvelope(s.env, u)
  IN  IF plain = Failed THEN placeholderMessage(stored) ELSE WithTime(plain, stored)

decryptMessageWithMeta(u, c, e) ==
  LET out == isOutgoingMessage(u, e.env.sender)
  IN  [out |-> out,
       msg |-> IF out THEN decryptOutgoingMessage(u, c, e.env, e.key[1])
               ELSE decryptIncomingMessage(u, e.env, e.key[1])]

\* An entry whose signature is wrong is skipped.
GetDecryptedMessagesWithMeta(u, c, limit, offset) ==
  {decryptMessageWithMeta(u, c, e) :
     e \in {f \in GetMessagesWithTimestamps(u, c, limit, offset) : VerifyEnvelope(f.env)}}

-----------------------------------------------------------------------------
Init ==
  /\ now = 0 /\ adds = 0 /\ network = <<>> /\ kept = {}
  /\ contacts = [u \in User |-> [c \in User |-> None]]
  /\ db = [u \in User |-> [c \in User |-> {}]]

\* Storage.AddContact replaces what it had.
AddContact(u, c, pub) ==
  /\ adds < MaxAdds /\ u # c /\ contacts[u][c] # pub
  /\ contacts' = [contacts EXCEPT ![u][c] = pub] /\ adds' = adds + 1
  /\ UNCHANGED <<now, network, db, kept>>

MutantSendMessage(u, c) ==
  LET n == Len(network) + 1
      signed == SignEnvelope(BuildEnvelope(n, BuildMessage(n, now), contacts[u][c]), u)
  IN  /\ n <= MaxSent /\ c # u /\ contacts[u][c] # None
      /\ network' = Append(network, [to |-> c, env |-> signed, at |-> now])
      /\ Store(u, c, signed)
      /\ UNCHANGED <<now, contacts, adds>>

\* The command line sends if it has a key.  Only the stored copy has the
\* sealed ephemeral key, and only what was published is stored.
SendMessage(u, c) ==
  LET n == Len(network) + 1
      signed == SignEnvelope(BuildEnvelope(n, BuildMessage(n, now), contacts[u][c]), u)
  IN  /\ n <= MaxSent /\ c # u /\ contacts[u][c] # None
      /\ network' = Append(network, [to |-> c, env |-> signed, at |-> now])
      /\ Store(u, c, [signed EXCEPT !.sealed = encryptEphemeralKey(n, u, contacts[u][c])])
      /\ UNCHANGED <<now, contacts, adds>>

\* ReceiveMessage and ReceiveMessageDirect: nothing tells a second delivery.
ReceiveMessageDirect(u, i) ==
  LET s == network[i].env
  IN  /\ network[i].to = u /\ VerifyEnvelope(s) /\ DecryptEnvelope(s.env, u) # Failed
      /\ Cardinality(db[u][s.sender]) < MaxCopies
      /\ Store(u, s.sender, s)
      /\ UNCHANGED <<now, contacts, adds, network>>

Tick ==
  /\ now < MaxNow /\ now' = now + 1
  /\ UNCHANGED <<contacts, adds, network, db, kept>>

Next ==
  \/ Tick
  \/ \E u, c \in User :
       \/ \E pub \in {None, c, Stranger} : AddContact(u, c, pub)
       \/ SendMessage(u, c)
  \/ \E u \in User, i \in 1 .. Len(network) : ReceiveMessageDirect(u, i)

Spec == Init /\ [][Next]_vars

-----------------------------------------------------------------------------
\* The history shows what was said, by whom and when: a received message as it
\* was sent, a sent one as long as the contact has the key it was sent under, and
\* otherwise a placeholder, never the text or the time of another message.  The
\* time is the one of sending, however late the message came or was stored, but
\* for a placeholder and a sender without a clock (decryptOutgoingMessage,
\* decryptIncomingMessage, encryptEphemeralKey).
HistoryFaithful ==
  \A u, c \in User :
    GetDecryptedMessagesWithMeta(u, c, 0, 0) =
      {LET n == e.env.env.nonce
           legible == \/ network[n].to = u
                      \/ e.env.env.cipher.key[2] = {generateEphemeralKeyPair(n), contacts[u][c]}
       IN  [out |-> network[n].to = c,
            msg |-> [text |-> IF legible THEN n ELSE Placeholder,
                     at |-> IF legible /\ network[n].at # 0 THEN network[n].at ELSE e.key[1]]] :
       e \in db[u][c]}

\* Every message that was stored stays, under each second it was stored in,
\* however many arrive in a second and however often (AddMessage, messageKey).
NothingOverwritten ==
  \A u, c \in User :
    {<<u, c, e.env.env.nonce, e.key[1]>> : e \in db[u][c]}
      = {k \in kept : k[1] = u /\ k[2] = c}

\* The history keeps every message and shows what was said (AddMessage,
\* GetDecryptedMessagesWithMeta).
HistorySound == HistoryFaithful /\ NothingOverwritten
=============================================================================
