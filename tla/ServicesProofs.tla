--------------------------- MODULE ServicesProofs ---------------------------
(***************************************************************************)
(* Proofs about the services of MCServices, each for the specification of  *)
(* its own module.                                                         *)
(***************************************************************************)
EXTENDS MCServices, FiniteSetTheorems, SequenceTheorems, WellFoundedInduction, TLAPS

-----------------------------------------------------------------------------
(* Fan-out.                                                                *)

MakingKey == {t \in Thread : fanThread[t].pc = "makekey"}

FanTypes ==
  /\ sessions \in [Recipient -> Nat]
  /\ fanThread \in [Thread -> [pc : {"idle", "device", "create", "key", "makekey"},
                               todo : Seq(Recipient)]]
  /\ made \in [session : Nat, key : Nat]
  /\ gone \subseteq Recipient
  /\ \A t \in Thread : fanThread[t].pc = "create" => fanThread[t].todo # <<>>

\* No goroutine is about to come to a device that was cleaned up, and once there
\* is a key no goroutine goes to make one that was not on its way before.
FanInv ==
  /\ FanTypes
  /\ \A d \in gone : sessions[d] = 0 /\ \A t \in Thread : d \notin F!Left(t)
  /\ symKey = 0 => made.key = 0
  /\ made.key + Cardinality(MakingKey) <= Cardinality(Thread)

\* The invariant holds at first.
LEMMA FanInit == F!Init => FanInv
<1> SUFFICES ASSUME F!Init PROVE FanInv
  OBVIOUS
<1>1. FanTypes
  BY EmptySeq DEF F!Init, F!Idle, FanTypes
<1>2. MakingKey = {}
  BY DEF F!Init, F!Idle, MakingKey
<1>3. Cardinality(Thread) \in Nat /\ Cardinality({}) = 0
  BY FanoutAssumption, FS_CardinalityType, FS_EmptySet
<1> QED BY <1>1, <1>2, <1>3 DEF F!Init, FanInv

\* Cardinality of FiniteSets is the same seen through an instance.
LEMMA FanCardinality == ASSUME NEW X PROVE F!Cardinality(X) = Cardinality(X)
BY DEF F!Cardinality, Cardinality

\* A list of devices holds what it was made from, and Left is what is in it.
LEMMA Lists ==
  ASSUME NEW ds \in SUBSET Recipient, NEW list \in F!SetToSeqs(ds)
  PROVE  list \in Seq(Recipient) /\ \A i \in 1 .. Len(list) : list[i] \in ds
<1>1. IsFiniteSet(ds)
  BY FanoutAssumption, FS_Subset
<1>2. Cardinality(ds) \in Nat
  BY <1>1, FS_CardinalityType
<1>3. list \in [1 .. Cardinality(ds) -> ds]
  BY FanCardinality DEF F!SetToSeqs
<1> QED BY <1>2, <1>3

\* What goroutine t has left after a step of its own.
LEMMA FanStep ==
  ASSUME FanInv, NEW t \in Thread,
         NEW r \in [pc : {"idle", "device", "create", "key", "makekey"}, todo : Seq(Recipient)],
         r.pc = "create" => r.todo # <<>>,
         \A i \in 1 .. Len(r.todo) : r.todo[i] \notin gone',
         fanThread' = [fanThread EXCEPT ![t] = r],
         sessions' \in [Recipient -> Nat], made' \in [session : Nat, key : Nat],
         gone' \subseteq gone, \A d \in gone' : sessions'[d] = 0,
         symKey' = 0 => made'.key = 0,
         made'.key + Cardinality(MakingKey') <= Cardinality(Thread)
  PROVE  FanInv'
<1>1. FanTypes'
  BY DEF FanInv, FanTypes
<1>2. ASSUME NEW d \in gone', NEW u \in Thread PROVE d \notin F!Left(u)'
  <2>1. d \notin F!Left(u) /\ fanThread[u].todo \in Seq(Recipient)
    BY <1>2 DEF FanInv, FanTypes
  <2>2. CASE u = t
    <3>1. F!Left(u)' = F!Range(r.todo)
      BY <2>2 DEF F!Left, FanInv, FanTypes
    <3> QED BY <3>1, <1>2 DEF F!Range
  <2>3. CASE u # t
    BY <2>1, <2>3 DEF F!Left, FanInv, FanTypes
  <2> QED BY <2>2, <2>3
<1> QED BY <1>1, <1>2 DEF FanInv

\* The number of goroutines that are about to make a key.
LEMMA Making ==
  ASSUME FanTypes
  PROVE  /\ IsFiniteSet(MakingKey) /\ Cardinality(MakingKey) \in Nat
         /\ Cardinality(Thread) \in Nat
         /\ Cardinality(MakingKey) <= Cardinality(Thread)
<1>1. MakingKey \subseteq Thread /\ IsFiniteSet(Thread)
  BY FanoutAssumption DEF MakingKey
<1> QED BY <1>1, FS_Subset, FS_CardinalityType

\* The invariant is inductive.
LEMMA FanKeeps == FanInv /\ [F!Next]_(F!vars) => FanInv'
<1> SUFFICES ASSUME FanInv, [F!Next]_(F!vars) PROVE FanInv'
  OBVIOUS
<1> USE DEF F!Idle
<1>t. FanTypes /\ (symKey = 0 => made.key = 0)
  BY DEF FanInv
<1>m. /\ IsFiniteSet(MakingKey) /\ Cardinality(MakingKey) \in Nat
      /\ Cardinality(Thread) \in Nat
      /\ Cardinality(MakingKey) <= Cardinality(Thread)
      /\ made.key + Cardinality(MakingKey) <= Cardinality(Thread)
  BY <1>t, Making DEF FanInv
<1>1. CASE UNCHANGED F!vars
  <2>1. MakingKey' = MakingKey /\ \A t \in Thread : F!Left(t)' = F!Left(t)
    BY <1>1 DEF F!vars, MakingKey, F!Left
  <2> QED BY <1>1, <2>1 DEF F!vars, FanInv, FanTypes
<1>2. ASSUME NEW t \in Thread, NEW ds \in SUBSET Recipient, F!SendMessageToIdentity(t, ds)
      PROVE  FanInv'
  <2>1. PICK list \in F!SetToSeqs(ds) :
          fanThread' = [fanThread EXCEPT ![t] =
            [pc |-> IF Len(list) >= SymmetricFrom THEN "key" ELSE "device", todo |-> list]]
    BY <1>2 DEF F!SendMessageToIdentity
  <2>2. list \in Seq(Recipient) /\ \A i \in 1 .. Len(list) : list[i] \in ds
    BY Lists
  <2>3. MakingKey' = MakingKey
    BY <1>2, <2>1, <1>t DEF MakingKey, FanTypes, F!SendMessageToIdentity
  <2>4. UNCHANGED <<sessions, symKey, made>> /\ gone' = gone \ ds
    BY <1>2 DEF F!SendMessageToIdentity
  <2> DEFINE r == [pc |-> IF Len(list) >= SymmetricFrom THEN "key" ELSE "device", todo |-> list]
  <2>5. /\ r \in [pc : {"idle", "device", "create", "key", "makekey"}, todo : Seq(Recipient)]
        /\ r.pc # "create"
        /\ \A i \in 1 .. Len(r.todo) : r.todo[i] \notin gone'
    BY <2>2, <2>4
  <2>6. fanThread' = [fanThread EXCEPT ![t] = r]
    BY <2>1
  <2> HIDE DEF r
  <2> QED BY <2>3, <2>4, <2>5, <2>6, <1>m, <1>t, FanStep DEF FanInv, FanTypes
<1>3. ASSUME NEW t \in Thread, F!Step(t) PROVE FanInv'
  <2>0. /\ fanThread[t].todo \in Seq(Recipient)
        /\ \A i \in 1 .. Len(fanThread[t].todo) : fanThread[t].todo[i] \notin gone
        /\ sessions \in [Recipient -> Nat] /\ made \in [session : Nat, key : Nat]
        /\ \A d \in gone : sessions[d] = 0
    BY <1>t DEF FanInv, FanTypes, F!Left, F!Range
  <2>t. fanThread[t].todo # <<>> =>
          /\ Tail(fanThread[t].todo) \in Seq(Recipient)
          /\ \A i \in 1 .. Len(Tail(fanThread[t].todo)) : Tail(fanThread[t].todo)[i] \notin gone
          /\ Head(fanThread[t].todo) \in Recipient \ gone
    BY <2>0
  <2>1. CASE F!AllFailed(t)
    <3>1. MakingKey' = MakingKey
      BY <2>1, <1>t DEF MakingKey, FanTypes, F!AllFailed
    <3>2. [pc |-> "idle", todo |-> <<>>] \in
            [pc : {"idle", "device", "create", "key", "makekey"}, todo : Seq(Recipient)]
      BY EmptySeq
    <3> QED BY <2>0, <2>1, <3>1, <3>2, <1>m, <1>t, FanStep DEF F!AllFailed
  <2>2. CASE F!FindSession(t)
    <3>0. fanThread[t].todo # <<>> /\ UNCHANGED <<sessions, symKey, made, gone>>
      BY <2>2 DEF F!FindSession
    <3>1. fanThread[t].pc = "device"
      BY <2>2 DEF F!FindSession
    <3>2. CASE sessions[Head(fanThread[t].todo)] # 0
      <4> DEFINE r == [pc |-> "device", todo |-> Tail(fanThread[t].todo)]
      <4>1. fanThread' = [fanThread EXCEPT ![t] = r]
        BY <2>2, <3>2 DEF F!FindSession, F!NextDevice
      <4>2. /\ r \in [pc : {"idle", "device", "create", "key", "makekey"}, todo : Seq(Recipient)]
            /\ r.pc # "create" /\ r.todo = Tail(fanThread[t].todo)
        BY <2>t, <3>0
      <4>3. MakingKey' = MakingKey
        BY <3>1, <4>1, <1>t DEF MakingKey, FanTypes
      <4> HIDE DEF r
      <4> QED BY <4>1, <4>2, <4>3, <3>0, <2>0, <2>t, <1>m, <1>t, FanStep
    <3>3. CASE sessions[Head(fanThread[t].todo)] = 0
      <4> DEFINE r == [pc |-> "create", todo |-> fanThread[t].todo]
      <4>1. fanThread' = [fanThread EXCEPT ![t] = r]
        BY <2>2, <3>3, <1>t DEF F!FindSession, F!NextDevice, FanTypes
      <4>2. /\ r \in [pc : {"idle", "device", "create", "key", "makekey"}, todo : Seq(Recipient)]
            /\ r.todo = fanThread[t].todo
        BY <2>0
      <4>3. MakingKey' = MakingKey
        BY <3>1, <4>1, <1>t DEF MakingKey, FanTypes
      <4> HIDE DEF r
      <4> QED BY <4>1, <4>2, <4>3, <3>0, <2>0, <1>m, <1>t, FanStep
    <3> QED BY <3>2, <3>3
  <2>3. CASE F!CreateSession(t)
    <3>0. fanThread[t].todo # <<>>
      BY <2>3, <1>t DEF F!CreateSession, FanTypes
    <3>1. MakingKey' = MakingKey
      BY <2>3, <1>t DEF MakingKey, FanTypes, F!CreateSession, F!NextDevice
    <3> DEFINE r == [pc |-> "device", todo |-> Tail(fanThread[t].todo)]
    <3>2. fanThread' = [fanThread EXCEPT ![t] = r]
      BY <2>3 DEF F!CreateSession, F!NextDevice
    <3>3. /\ r \in [pc : {"idle", "device", "create", "key", "makekey"}, todo : Seq(Recipient)]
          /\ r.pc # "create" /\ r.todo = Tail(fanThread[t].todo)
      BY <2>t, <3>0
    <3> HIDE DEF r
    <3>4. /\ sessions' \in [Recipient -> Nat] /\ made' \in [session : Nat, key : Nat]
          /\ made'.key = made.key /\ UNCHANGED <<symKey, gone>>
          /\ \A d \in gone : sessions'[d] = 0
      BY <2>3, <2>0, <2>t, <3>0 DEF F!CreateSession
    <3> QED BY <3>1, <3>2, <3>3, <3>4, <3>0, <2>t, <1>m, <1>t, FanStep
  <2>4. CASE F!FindSymmetricKey(t)
    <3>0. UNCHANGED <<sessions, symKey, made, gone>>
      BY <2>4 DEF F!FindSymmetricKey
    <3>1. CASE symKey # 0
      <4> DEFINE r == [pc |-> "idle", todo |-> <<>>]
      <4>1. fanThread' = [fanThread EXCEPT ![t] = r] /\ fanThread[t].pc = "key"
        BY <2>4, <3>1 DEF F!FindSymmetricKey, F!KeyFailed
      <4>2. /\ r \in [pc : {"idle", "device", "create", "key", "makekey"}, todo : Seq(Recipient)]
            /\ r.pc # "create" /\ \A i \in 1 .. Len(r.todo) : r.todo[i] \notin gone'
        BY EmptySeq
      <4>3. MakingKey' = MakingKey
        BY <4>1, <1>t DEF MakingKey, FanTypes
      <4> HIDE DEF r
      <4> QED BY <4>1, <4>2, <4>3, <3>0, <2>0, <1>m, <1>t, FanStep
    <3>2. CASE symKey = 0
      <4> DEFINE r == [pc |-> "makekey", todo |-> fanThread[t].todo]
      <4>1. fanThread' = [fanThread EXCEPT ![t] = r]
        BY <2>4, <3>2, <1>t DEF F!FindSymmetricKey, FanTypes
      <4>2. /\ r \in [pc : {"idle", "device", "create", "key", "makekey"}, todo : Seq(Recipient)]
            /\ r.pc # "create" /\ r.todo = fanThread[t].todo
        BY <2>0
      <4> HIDE DEF r
      <4>3. MakingKey' \subseteq Thread
        BY DEF MakingKey
      <4>4. Cardinality(MakingKey') \in Nat /\ Cardinality(MakingKey') <= Cardinality(Thread)
        BY <4>3, FanoutAssumption, FS_Subset, FS_CardinalityType
      <4>5. made'.key + Cardinality(MakingKey') <= Cardinality(Thread)
        BY <3>0, <3>2, <4>4, <1>t, <1>m
      <4> QED BY <4>1, <4>2, <4>5, <3>0, <2>0, <1>t, FanStep
    <3> QED BY <3>1, <3>2
  <2>5. CASE F!MakeSymmetricKey(t)
    <3>1. t \in MakingKey /\ MakingKey' = MakingKey \ {t}
      BY <2>5, <1>t DEF MakingKey, FanTypes, F!MakeSymmetricKey, F!KeyFailed
    <3>2. Cardinality(MakingKey') = Cardinality(MakingKey) - 1
      BY <3>1, <1>m, FS_RemoveElement
    <3>3. /\ made' \in [session : Nat, key : Nat] /\ made'.key = made.key + 1
          /\ symKey' = made.key + 1 /\ symKey' # 0 /\ UNCHANGED <<sessions, gone>>
      BY <2>5, <2>0 DEF F!MakeSymmetricKey, F!KeyFailed
    <3> DEFINE r == [pc |-> "idle", todo |-> <<>>]
    <3>6. fanThread' = [fanThread EXCEPT ![t] = r]
      BY <2>5 DEF F!MakeSymmetricKey, F!KeyFailed
    <3>4. /\ r \in [pc : {"idle", "device", "create", "key", "makekey"}, todo : Seq(Recipient)]
          /\ r.pc # "create" /\ \A i \in 1 .. Len(r.todo) : r.todo[i] \notin gone'
      BY EmptySeq
    <3> HIDE DEF r
    <3>5. made'.key + Cardinality(MakingKey') <= Cardinality(Thread)
      BY <3>2, <3>3, <2>0, <1>m
    <3> QED BY <3>3, <3>4, <3>5, <3>6, <2>0, FanStep
  <2> QED BY <1>3, <2>1, <2>2, <2>3, <2>4, <2>5 DEF F!Step
<1>4. ASSUME NEW active \in SUBSET Recipient, F!CleanupRevokedDevices(active)
      PROVE  FanInv'
  <2>1. /\ MakingKey' = MakingKey /\ \A t \in Thread : F!Left(t)' = F!Left(t)
        /\ UNCHANGED <<fanThread, symKey, made>>
    BY <1>4 DEF F!CleanupRevokedDevices, MakingKey, F!Left
  <2>2. FanTypes'
    BY <1>4, <1>t DEF F!CleanupRevokedDevices, FanTypes
  <2>3. \A d \in gone' : sessions'[d] = 0 /\ \A t \in Thread : d \notin F!Left(t)'
    BY <1>4, <1>t, <2>1 DEF F!CleanupRevokedDevices, FanInv, FanTypes
  <2> QED BY <2>1, <2>2, <2>3, <1>m, <1>t DEF FanInv
<1> QED BY <1>1, <1>2, <1>3, <1>4 DEF F!Next

\* FanoutSound for any numbers of devices, goroutines, sends and cleanups: a session
\* that CleanupRevokedDevices removed stays away until a send names its device, and
\* getOrCreateSymmetricKey makes no more keys than there are goroutines.
THEOREM FanoutKeeps == F!Spec => []FanoutSound
<1>1. FanInv => FanoutSound
  BY Making, FanCardinality
     DEF FanInv, FanTypes, FanoutSound, F!FanoutSound, F!CleanupSticks, F!SymmetricKeyReused
<1> QED BY <1>1, FanInit, FanKeeps, PTL DEF F!Spec

-----------------------------------------------------------------------------
(* History.                                                                *)

PubKey == User \cup {Stranger}

\* Message n as it was published, for c under the key pub that u had of it.
Published(n, x) ==
  \E u, c \in User : \E pub \in PubKey \ {H!None} : \E t \in Nat :
    /\ u # c
    /\ x = [to |-> c, at |-> t,
            env |-> H!SignEnvelope(H!BuildEnvelope(n, H!BuildMessage(n, t), pub), u)]

\* Entry e of u with c: message n, sealed for c under pub, with the ephemeral
\* key under the key that u and pub share, or received by u, whose key pub is.
Entry(net, u, c, e) ==
  \E n \in DOMAIN net : \E at \in Nat : \E pub \in PubKey \ {H!None} :
    /\ e.key = <<at, n>>
    /\ e.env.env = H!BuildEnvelope(n, H!BuildMessage(n, net[n].at), pub)
    /\ e.env.sig = <<e.env.sender, e.env.env>>
    /\ u # c
    /\ \/ /\ e.env.sender = u /\ net[n].to = c
          /\ e.env.sealed = H!encryptEphemeralKey(n, u, pub)
       \/ e.env.sender = c /\ net[n].to = u /\ pub = u

HistInv ==
  /\ second \in Nat
  /\ contacts \in [User -> [User -> PubKey \cup {H!None}]]
  /\ network = [n \in 1 .. Len(network) |-> network[n]] /\ Len(network) \in Nat
  /\ \A n \in DOMAIN network : Published(n, network[n])
  /\ db = [u \in User |-> [c \in User |-> db[u][c]]]
  /\ \A u, c \in User : IsFiniteSet(db[u][c]) /\ \A e \in db[u][c] : Entry(network, u, c, e)
  /\ H!NothingOverwritten

\* Cardinality is the same seen through the instance.
LEMMA HistCardinality == ASSUME NEW X PROVE H!Cardinality(X) = Cardinality(X)
BY DEF H!Cardinality, Cardinality

\* An entry is shown as it was said, or as a placeholder.
LEMMA EntryShown ==
  ASSUME HistInv, NEW u \in User, NEW c \in User, NEW e \in db[u][c]
  PROVE  /\ H!VerifyEnvelope(e.env)
         /\ H!decryptMessageWithMeta(u, c, e) =
              LET n == e.env.env.nonce
                  legible == \/ network[n].to = u
                             \/ e.env.env.cipher.key[2] =
                                  {H!generateEphemeralKeyPair(n), contacts[u][c]}
              IN  [out |-> network[n].to = c,
                   msg |-> [text |-> IF legible THEN n ELSE H!Placeholder,
                            at |-> IF legible /\ network[n].at # 0
                                   THEN network[n].at ELSE e.key[1]]]
<1>0. Entry(network, u, c, e)
  BY DEF HistInv
<1>1. PICK n \in DOMAIN network, at \in Nat, pub \in PubKey \ {H!None} :
        /\ e.key = <<at, n>>
        /\ e.env.env = H!BuildEnvelope(n, H!BuildMessage(n, network[n].at), pub)
        /\ e.env.sig = <<e.env.sender, e.env.env>>
        /\ u # c
        /\ \/ /\ e.env.sender = u /\ network[n].to = c
              /\ e.env.sealed = H!encryptEphemeralKey(n, u, pub)
           \/ e.env.sender = c /\ network[n].to = u /\ pub = u
  BY <1>0, Zenon DEF Entry
<1> DEFINE t == network[n].at
           plain == <<n, t>>
<1>2. /\ n \in 1 .. Len(network) /\ n \in Nat /\ plain # H!Failed /\ <<100 + n>> # H!Failed
      /\ plain[1] = n /\ plain[2] = t
  BY DEF HistInv, H!Failed
<1>3. /\ e.env.env.nonce = n /\ e.env.env.eph = 100 + n
      /\ e.env.env.cipher = [key |-> <<"encryption", {100 + n, pub}>>, nonce |-> n, plain |-> plain]
  BY <1>1 DEF H!BuildEnvelope, H!BuildMessage, H!GenerateNonce, H!generateEphemeralKeyPair,
              H!EncryptWithSharedSecret, H!Encrypt, H!DeriveKey, H!ComputeSharedSecret
<1>4. H!VerifyEnvelope(e.env)
  BY <1>1 DEF H!VerifyEnvelope
<1> DEFINE said == [text |-> n, at |-> IF t # 0 THEN t ELSE e.key[1]]
<1>7. H!WithTime(plain, e.key[1]) = said
  BY <1>2 DEF H!WithTime
<1> HIDE DEF plain, t
<1>5. CASE e.env.sender = c /\ network[n].to = u /\ pub = u
  <2>1. H!DecryptEnvelope(e.env.env, u) = plain
    BY <1>2, <1>3, <1>5 DEF H!DecryptEnvelope, H!DecryptWithSharedSecret,
          H!Decrypt, H!DeriveKey, H!ComputeSharedSecret
  <2>2. H!decryptIncomingMessage(u, e.env, e.key[1]) = said
    BY <1>2, <1>7, <2>1, Zenon DEF H!decryptIncomingMessage
  <2>3. H!decryptMessageWithMeta(u, c, e) = [out |-> FALSE, msg |-> said]
    BY <1>1, <1>5, <2>2, Zenon DEF H!decryptMessageWithMeta, H!isOutgoingMessage
  <2> QED BY <1>1, <1>3, <1>4, <1>5, <2>3 DEF t
<1>6. CASE e.env.sender = u /\ network[n].to = c /\ e.env.sealed = H!encryptEphemeralKey(n, u, pub)
  <2> DEFINE pubNow == contacts[u][c]
             priv == H!decryptEphemeralKeyFromEnvelope(e.env, u, pubNow)
             opened == H!decryptWithEphemeralKey(e.env.env, priv, pubNow)
  <2>1. e.env.sealed =
          <<[key |-> <<"ephemeral-key-encryption", {u, pub}>>, nonce |-> n, plain |-> <<100 + n>>]>>
    BY <1>6 DEF H!encryptEphemeralKey, H!Encrypt, H!DeriveKey, H!ComputeSharedSecret,
                H!GenerateNonce, H!generateEphemeralKeyPair
  <2>2. /\ e.env.sealed # <<>>
        /\ e.env.sealed[1].key = <<"ephemeral-key-encryption", {u, pub}>>
        /\ e.env.sealed[1].nonce = n /\ e.env.sealed[1].plain = <<100 + n>>
    BY <2>1
  <2>3. priv = IF {u, pub} = {u, pubNow} THEN <<100 + n>> ELSE H!Failed
    BY <2>2 DEF H!decryptEphemeralKeyFromEnvelope, H!decryptEphemeralKey, H!Decrypt, H!DeriveKey,
                H!ComputeSharedSecret
  <2>4. {u, pub} = {u, pubNow} <=> pub = pubNow
    OBVIOUS
  <2>5. {100 + n, pub} = {100 + n, pubNow} <=> pub = pubNow
    OBVIOUS
  <2>6. opened = IF {100 + n, pub} = {priv[1], pubNow} THEN plain ELSE H!Failed
    BY <1>3 DEF H!decryptWithEphemeralKey, H!Decrypt, H!DeriveKey, H!ComputeSharedSecret
  <2>7. H!decryptOutgoingMessage(u, c, e.env, e.key[1]) =
          IF pubNow = H!None \/ priv = H!Failed \/ opened = H!Failed
          THEN H!placeholderMessage(e.key[1]) ELSE H!WithTime(opened, e.key[1])
    BY Zenon DEF H!decryptOutgoingMessage
  <2> HIDE DEF priv, opened, pubNow
  <2>8. H!decryptOutgoingMessage(u, c, e.env, e.key[1]) =
          IF pub = pubNow THEN said ELSE [text |-> H!Placeholder, at |-> e.key[1]]
    <3>1. CASE pub = pubNow
      <4>1. priv = <<100 + n>> /\ priv[1] = 100 + n
        BY <2>3, <3>1
      <4>2. opened = plain
        BY <2>6, <3>1, <4>1
      <4> HIDE DEF said
      <4> QED BY <1>1, <1>2, <1>7, <2>7, <3>1, <4>1, <4>2, Zenon
    <3>2. CASE pub # pubNow
      <4>1. priv = H!Failed
        BY <2>3, <2>4, <3>2
      <4> QED BY <2>7, <3>2, <4>1 DEF H!placeholderMessage
    <3> QED BY <3>1, <3>2
  <2>9. (e.env.env.cipher.key[2] = {H!generateEphemeralKeyPair(n), pubNow}) <=> pub = pubNow
    BY <1>3, <2>5 DEF H!generateEphemeralKeyPair
  <2>10. H!decryptMessageWithMeta(u, c, e) =
           [out |-> TRUE, msg |-> H!decryptOutgoingMessage(u, c, e.env, e.key[1])]
    BY <1>6, Zenon DEF H!decryptMessageWithMeta, H!isOutgoingMessage
  <2> QED BY <1>1, <1>3, <1>4, <1>6, <2>8, <2>9, <2>10 DEF pubNow, t
<1> QED BY <1>1, <1>5, <1>6

\* Without a limit and an offset all entries are read.
LEMMA AllRead ==
  ASSUME HistInv, NEW u \in User, NEW c \in User
  PROVE  H!GetMessagesWithTimestamps(u, c, 0, 0) = db[u][c]
<1>1. ASSUME NEW e \in db[u][c]
      PROVE  0 <= Cardinality({f \in db[u][c] : H!Before(f.key, e.key)})
  <2>1. IsFiniteSet({f \in db[u][c] : H!Before(f.key, e.key)})
    BY FS_Subset DEF HistInv
  <2> QED BY <2>1, FS_CardinalityType
<1> QED BY <1>1, HistCardinality DEF H!GetMessagesWithTimestamps

\* The invariant gives that the history is faithful.
LEMMA HistShown == HistInv => H!HistoryFaithful
<1> SUFFICES ASSUME HistInv, NEW u \in User, NEW c \in User
             PROVE  H!GetDecryptedMessagesWithMeta(u, c, 0, 0) =
                      {LET n == e.env.env.nonce
                           legible == \/ network[n].to = u
                                      \/ e.env.env.cipher.key[2] =
                                           {H!generateEphemeralKeyPair(n), contacts[u][c]}
                       IN  [out |-> network[n].to = c,
                            msg |-> [text |-> IF legible THEN n ELSE H!Placeholder,
                                     at |-> IF legible /\ network[n].at # 0
                                            THEN network[n].at ELSE e.key[1]]] :
                       e \in db[u][c]}
  BY DEF H!HistoryFaithful
<1>1. {f \in db[u][c] : H!VerifyEnvelope(f.env)} = db[u][c]
  BY EntryShown
<1>2. H!GetDecryptedMessagesWithMeta(u, c, 0, 0) =
        {H!decryptMessageWithMeta(u, c, e) : e \in db[u][c]}
  BY <1>1, AllRead DEF H!GetDecryptedMessagesWithMeta
<1> QED BY <1>2, EntryShown

\* The invariant holds at first.
LEMMA HistInit == H!Init => HistInv
<1> SUFFICES ASSUME H!Init PROVE HistInv
  OBVIOUS
<1>1. /\ second = 0 /\ network = <<>> /\ kept = {}
      /\ contacts = [u \in User |-> [c \in User |-> H!None]]
      /\ db = [u \in User |-> [c \in User |-> {}]]
  BY DEF H!Init
<1>2. \A u, c \in User : db[u][c] = {} /\ IsFiniteSet({})
  BY <1>1, FS_EmptySet
<1>3. H!NothingOverwritten
  BY <1>1, <1>2 DEF H!NothingOverwritten
<1> QED BY <1>1, <1>2, <1>3 DEF HistInv

\* An entry stays one when a message is published.
LEMMA EntryStays ==
  ASSUME NEW net, NEW more, DOMAIN net \subseteq DOMAIN more,
         \A n \in DOMAIN net : more[n] = net[n],
         NEW u, NEW c, NEW e, Entry(net, u, c, e)
  PROVE  Entry(more, u, c, e)
BY DEF Entry

\* The key of an entry is the second and the nonce.
LEMMA EntryKey ==
  ASSUME NEW net, NEW u, NEW c, NEW e, Entry(net, u, c, e)
  PROVE  e.key[2] = e.env.env.nonce /\ e.key = <<e.key[1], e.key[2]>>
<1>1. PICK n \in DOMAIN net, at \in Nat, pub \in PubKey \ {H!None} :
        e.key = <<at, n>> /\ e.env.env = H!BuildEnvelope(n, H!BuildMessage(n, net[n].at), pub)
  BY Zenon DEF Entry
<1>2. e.env.env.nonce = n
  BY <1>1 DEF H!BuildEnvelope, H!GenerateNonce
<1> QED BY <1>1, <1>2

\* What AddMessage leaves of the table and of what was acknowledged.
LEMMA Stored ==
  ASSUME HistInv, UNCHANGED second, DOMAIN network \subseteq DOMAIN network',
         \A n \in DOMAIN network : network'[n] = network[n],
         NEW u \in User, NEW c \in User, NEW s, H!Store(u, c, s),
         Entry(network', u, c, [key |-> <<second, s.env.nonce>>, env |-> s])
  PROVE  /\ db' = [v \in User |-> [d \in User |-> db'[v][d]]]
         /\ \A v, d \in User : IsFiniteSet(db'[v][d]) /\ \A e \in db'[v][d] : Entry(network', v, d, e)
         /\ H!NothingOverwritten'
<1>1. CASE UNCHANGED <<db, kept>>
  <2>1. \A v, d \in User : \A e \in db[v][d] : Entry(network', v, d, e)
    BY EntryStays DEF HistInv
  <2>2. H!NothingOverwritten'
    BY <1>1 DEF HistInv, H!NothingOverwritten
  <2> QED BY <1>1, <2>1, <2>2 DEF HistInv
<1>2. CASE H!AddMessage(u, c, s)
  <2> DEFINE key == <<second, s.env.nonce>>
             new == [key |-> key, env |-> s]
             row == {e \in db[u][c] : e.key # key} \cup {new}
  <2>1. /\ db' = [db EXCEPT ![u][c] = row]
        /\ kept' = kept \cup {<<u, c, s.env.nonce, second>>}
    BY <1>2 DEF H!AddMessage, H!messageKey
  <2>2. \A v, d \in User : db'[v][d] = IF v = u /\ d = c THEN row ELSE db[v][d]
    BY <2>1 DEF HistInv
  <2>3. db' = [v \in User |-> [d \in User |-> db'[v][d]]]
    BY <2>1 DEF HistInv
  <2>4. \A v, d \in User : \A e \in db[v][d] : Entry(network', v, d, e)
    BY EntryStays DEF HistInv
  <2>5. IsFiniteSet(row)
    <3>1. IsFiniteSet({e \in db[u][c] : e.key # key})
      BY FS_Subset DEF HistInv
    <3> QED BY <3>1, FS_AddElement
  <2>6. ASSUME NEW v \in User, NEW d \in User
        PROVE  IsFiniteSet(db'[v][d]) /\ \A e \in db'[v][d] : Entry(network', v, d, e)
    <3>1. CASE v = u /\ d = c
      BY <2>2, <2>4, <2>5, <3>1, ZenonT(40)
    <3>2. CASE ~(v = u /\ d = c)
      BY <2>2, <2>4, <3>2 DEF HistInv
    <3> QED BY <3>1, <3>2
  <2>7. ASSUME NEW v \in User, NEW d \in User
        PROVE  {<<v, d, e.env.env.nonce, e.key[1]>> : e \in db'[v][d]}
                 = {k \in kept' : k[1] = v /\ k[2] = d}
    <3>0. {<<v, d, e.env.env.nonce, e.key[1]>> : e \in db[v][d]}
            = {k \in kept : k[1] = v /\ k[2] = d}
      BY DEF HistInv, H!NothingOverwritten
    <3>1. CASE v = u /\ d = c
      <4>1. \A e \in db[u][c] : e.key[2] = e.env.env.nonce /\ e.key = <<e.key[1], e.key[2]>>
        BY EntryKey DEF HistInv
      <4>2. \A e \in db[u][c] : e.key = key =>
              e.env.env.nonce = s.env.nonce /\ e.key[1] = second
        BY <4>1
      <4>3. new.env.env.nonce = s.env.nonce /\ new.key[1] = second
        OBVIOUS
      <4> HIDE DEF new, key
      <4>4. {<<v, d, e.env.env.nonce, e.key[1]>> : e \in row}
              = {<<v, d, e.env.env.nonce, e.key[1]>> : e \in db[u][c]}
                  \cup {<<v, d, s.env.nonce, second>>}
        BY <4>2, <4>3
      <4>5. {k \in kept' : k[1] = v /\ k[2] = d} =
              {k \in kept : k[1] = v /\ k[2] = d} \cup {<<v, d, s.env.nonce, second>>}
        BY <2>1, <3>1
      <4> QED BY <2>2, <3>0, <3>1, <4>4, <4>5
    <3>2. CASE ~(v = u /\ d = c)
      <4>1. {k \in kept' : k[1] = v /\ k[2] = d} = {k \in kept : k[1] = v /\ k[2] = d}
        BY <2>1, <3>2
      <4> QED BY <2>2, <3>0, <3>2, <4>1
    <3> QED BY <3>1, <3>2
  <2>8. H!NothingOverwritten'
    BY <2>7 DEF H!NothingOverwritten
  <2> QED BY <2>3, <2>6, <2>8
<1> QED BY <1>1, <1>2 DEF H!Store

\* The invariant is inductive.
LEMMA HistKeeps == HistInv /\ [H!Next]_(H!vars) => HistInv'
<1> SUFFICES ASSUME HistInv, [H!Next]_(H!vars) PROVE HistInv'
  OBVIOUS
<1>0. UNCHANGED <<network, db, kept>> =>
        /\ \A n \in DOMAIN network' : Published(n, network'[n])
        /\ \A u, c \in User : \A e \in db'[u][c] : Entry(network', u, c, e)
        /\ H!NothingOverwritten'
  BY DEF HistInv, H!NothingOverwritten
<1>1. CASE UNCHANGED H!vars
  BY <1>0, <1>1 DEF H!vars, HistInv
<1>2. CASE H!Tick
  BY <1>0, <1>2 DEF H!Tick, HistInv
<1>3. ASSUME NEW u \in User, NEW c \in User, NEW pub \in {H!None, c, Stranger},
             H!AddContact(u, c, pub)
      PROVE  HistInv'
  <2>1. contacts' \in [User -> [User -> PubKey \cup {H!None}]]
    BY <1>3 DEF H!AddContact, HistInv, PubKey
  <2> QED BY <1>0, <1>3, <2>1 DEF H!AddContact, HistInv
<1>4. ASSUME NEW u \in User, NEW c \in User, H!SendMessage(u, c)
      PROVE  HistInv'
  <2> DEFINE n == Len(network) + 1
             pub == contacts[u][c]
             msg == H!BuildMessage(n, second)
             signed == H!SignEnvelope(H!BuildEnvelope(n, msg, pub), u)
             s == [signed EXCEPT !.sealed = H!encryptEphemeralKey(n, u, pub)]
  <2>1. /\ u # c /\ pub # H!None /\ H!Store(u, c, s) /\ UNCHANGED <<second, contacts>>
        /\ network' = Append(network, [to |-> c, env |-> signed, at |-> second])
    BY <1>4 DEF H!SendMessage
  <2>2. pub \in PubKey \ {H!None} /\ Len(network) \in Nat
    BY <2>1 DEF HistInv
  <2>3. /\ network' = [k \in 1 .. Len(network') |-> network'[k]] /\ Len(network') = n
        /\ DOMAIN network' = 1 .. n /\ DOMAIN network = 1 .. Len(network)
        /\ \A k \in DOMAIN network : network'[k] = network[k]
        /\ network'[n] = [to |-> c, env |-> signed, at |-> second]
    <3> HIDE DEF signed
    <3>1. network \in Seq({network[k] : k \in DOMAIN network})
      BY DEF HistInv
    <3> QED BY <2>1, <2>2, <3>1
  <2>4. Published(n, network'[n])
    BY <2>1, <2>2, <2>3 DEF Published, HistInv
  <2>5. \A k \in DOMAIN network' : Published(k, network'[k])
    BY <2>2, <2>3, <2>4 DEF HistInv
  <2>7. /\ s.env = H!BuildEnvelope(n, msg, pub) /\ s.sender = u /\ s.sig = <<u, s.env>>
        /\ s.sealed = H!encryptEphemeralKey(n, u, pub) /\ s.env.nonce = n
    BY DEF H!SignEnvelope, H!BuildEnvelope, H!GenerateNonce
  <2> HIDE DEF s
  <2>8. Entry(network', u, c, [key |-> <<second, s.env.nonce>>, env |-> s])
    <3> DEFINE e == [key |-> <<second, s.env.nonce>>, env |-> s]
    <3>1. /\ n \in DOMAIN network' /\ second \in Nat
          /\ e.key = <<second, n>> /\ e.env = s
          /\ network'[n].to = c /\ network'[n].at = second
      BY <2>2, <2>3, <2>7 DEF HistInv
    <3> HIDE DEF e
    <3>2. Entry(network', u, c, e)
      <4> SUFFICES \E k \in DOMAIN network' : \E at \in Nat : \E q \in PubKey \ {H!None} :
                     /\ e.key = <<at, k>>
                     /\ e.env.env = H!BuildEnvelope(k, H!BuildMessage(k, network'[k].at), q)
                     /\ e.env.sig = <<e.env.sender, e.env.env>>
                     /\ u # c
                     /\ \/ /\ e.env.sender = u /\ network'[k].to = c
                           /\ e.env.sealed = H!encryptEphemeralKey(k, u, q)
                        \/ e.env.sender = c /\ network'[k].to = u /\ q = u
        BY DEF Entry
      <4> n \in DOMAIN network' /\ second \in Nat /\ pub \in PubKey \ {H!None}
        BY <2>2, <3>1
      <4> WITNESS n \in DOMAIN network', second \in Nat, pub \in PubKey \ {H!None}
      <4> QED BY <2>1, <2>7, <3>1
    <3> QED BY <3>2, <2>1 DEF e
  <2>9. DOMAIN network \subseteq DOMAIN network'
    BY <2>2, <2>3
  <2>10. /\ db' = [v \in User |-> [d \in User |-> db'[v][d]]]
         /\ \A v, d \in User : IsFiniteSet(db'[v][d]) /\ \A e \in db'[v][d] : Entry(network', v, d, e)
         /\ H!NothingOverwritten'
    BY <2>1, <2>3, <2>8, <2>9, Stored
  <2> QED BY <2>1, <2>2, <2>3, <2>5, <2>10 DEF HistInv
<1>5. ASSUME NEW u \in User, NEW i \in 1 .. Len(network), H!ReceiveMessageDirect(u, i)
      PROVE  HistInv'
  <2>1. UNCHANGED <<second, contacts, network>> /\ i \in DOMAIN network /\ i \in Nat
    BY <1>5 DEF H!ReceiveMessageDirect, HistInv
  <2>2. PICK v \in User, c \in User, pub \in PubKey \ {H!None}, t \in Nat :
          /\ v # c
          /\ network[i] = [to |-> c, at |-> t,
               env |-> H!SignEnvelope(H!BuildEnvelope(i, H!BuildMessage(i, t), pub), v)]
    BY <2>1, Zenon DEF HistInv, Published
  <2> DEFINE s == network[i].env
  <2>s. /\ s = H!SignEnvelope(H!BuildEnvelope(i, H!BuildMessage(i, t), pub), v)
        /\ network[i].to = c /\ network[i].at = t
    BY <2>2
  <2>v. H!ReceiveMessageDirect(u, i) <=>
          /\ network[i].to = u /\ H!VerifyEnvelope(s) /\ H!DecryptEnvelope(s.env, u) # H!Failed
          /\ H!Cardinality(db[u][s.sender]) < MaxCopies
          /\ H!Store(u, s.sender, s)
          /\ UNCHANGED <<second, contacts, adds, network>>
    BY DEF H!ReceiveMessageDirect
  <2> HIDE DEF s
  <2>3. /\ s.env = H!BuildEnvelope(i, H!BuildMessage(i, t), pub) /\ s.sender = v
        /\ s.sig = <<v, s.env>>
        /\ s.env.nonce = i /\ s.env.eph = 100 + i
        /\ s.env.cipher = [key |-> <<"encryption", {100 + i, pub}>>, nonce |-> i, plain |-> <<i, t>>]
    BY <2>s DEF H!SignEnvelope, H!BuildEnvelope, H!BuildMessage, H!GenerateNonce, H!generateEphemeralKeyPair,
       H!EncryptWithSharedSecret, H!Encrypt, H!DeriveKey, H!ComputeSharedSecret
  <2>4. c = u /\ H!Store(u, v, s) /\ H!DecryptEnvelope(s.env, u) # H!Failed
    BY <1>5, <2>s, <2>v, <2>3
  <2>5. {100 + i, pub} = {u, 100 + i}
    <3>1. H!DecryptEnvelope(s.env, u) =
            H!Decrypt(<<"encryption", {u, 100 + i}>>, i, s.env.cipher)
      BY <2>3 DEF H!DecryptEnvelope, H!DecryptWithSharedSecret, H!DeriveKey, H!ComputeSharedSecret
    <3>2. s.env.cipher.key = <<"encryption", {u, 100 + i}>>
      BY <2>4, <3>1, Zenon DEF H!Decrypt
    <3>3. s.env.cipher.key = <<"encryption", {100 + i, pub}>>
      BY <2>3
    <3> DEFINE x == {100 + i, pub}
               y == {u, 100 + i}
    <3>4. <<"encryption", x>> = <<"encryption", y>>
      BY <3>2, <3>3, Zenon
    <3> HIDE DEF x, y
    <3>5. x = y
      BY <3>4
    <3> QED BY <3>5 DEF x, y
  <2>6. pub = u
    BY <2>5
  <2>7. Entry(network, u, v, [key |-> <<second, s.env.nonce>>, env |-> s])
    <3> DEFINE e == [key |-> <<second, s.env.nonce>>, env |-> s]
    <3>1. /\ second \in Nat /\ e.key = <<second, i>> /\ e.env = s
          /\ network[i].to = u /\ network[i].at = t
      BY <2>s, <2>3, <2>4 DEF HistInv
    <3> HIDE DEF e
    <3>2. Entry(network, u, v, e)
      <4> SUFFICES \E k \in DOMAIN network : \E at \in Nat : \E q \in PubKey \ {H!None} :
                     /\ e.key = <<at, k>>
                     /\ e.env.env = H!BuildEnvelope(k, H!BuildMessage(k, network[k].at), q)
                     /\ e.env.sig = <<e.env.sender, e.env.env>>
                     /\ u # v
                     /\ \/ /\ e.env.sender = u /\ network[k].to = v
                           /\ e.env.sealed = H!encryptEphemeralKey(k, u, q)
                        \/ e.env.sender = v /\ network[k].to = u /\ q = u
        BY DEF Entry
      <4> i \in DOMAIN network /\ second \in Nat
        BY <2>1, <3>1
      <4> WITNESS i \in DOMAIN network, second \in Nat, pub \in PubKey \ {H!None}
      <4> QED BY <2>2, <2>3, <2>4, <2>6, <3>1
    <3> QED BY <3>2 DEF e
  <2>8. Entry(network', u, v, [key |-> <<second, s.env.nonce>>, env |-> s])
    BY <2>1, <2>7
  <2>9. /\ db' = [w \in User |-> [d \in User |-> db'[w][d]]]
        /\ \A w, d \in User : IsFiniteSet(db'[w][d]) /\ \A e \in db'[w][d] : Entry(network', w, d, e)
        /\ H!NothingOverwritten'
    BY <2>1, <2>4, <2>8, Stored
  <2> QED BY <2>1, <2>9 DEF HistInv
<1> QED BY <1>1, <1>2, <1>3, <1>4, <1>5 DEF H!Next

\* HistorySound for any users, messages, seconds, changes of keys, failed writes and
\* repeated deliveries: AddMessage overwrites nothing, and the history shows each
\* message as and when it was said, or a placeholder once the contact has another key.
THEOREM HistoryKeeps == H!Spec => []HistorySound
<1>1. HistInv => HistorySound
  BY HistShown DEF HistInv, HistorySound, H!HistorySound
<1> QED BY <1>1, HistInit, HistKeeps, PTL DEF H!Spec

-----------------------------------------------------------------------------
(* Group calls.                                                            *)

Person == Ident \cup {Self}
ParticipantInfo == [id : Person, owner : BOOLEAN, sfu : BOOLEAN, n : Nat]
Participants == Seq(ParticipantInfo)
GroupSession ==
  [group : Group \cup {0}, sfuMode : BOOLEAN, ended : BOOLEAN, participants : Participants,
   sfu : Person \cup {0}, served : BOOLEAN]
Job ==
  [op : {"none", "join", "leave", "end", "stop"},
   at : {"idle", "found", "ending", "unsubscribing", "deleting", "stopping"},
   c : Call \cup {0}, sub : Call \cup {0}]

\* A call that was created.
Made(c) == c \in Call /\ session[c].group \in Group

CallTypes ==
  /\ callOps \in Nat
  /\ session \in [Call -> GroupSession]
  /\ subscriptions \in [Group -> Call \cup {0}]
  /\ job \in [Thread -> Job]
  /\ \A c \in Call : session[c].group = 0 => session[c] = G!NoSession
  /\ \A c \in calls : Made(c)
  /\ \A e \in elections : Made(e.c) /\ e.cand \in Person
  /\ \A t \in Thread :
       /\ job[t].op \in {"join", "leave", "end"} => Made(job[t].c)
       /\ job[t].at \in {"ending", "unsubscribing", "deleting"} => Made(job[t].c)

\* The owner is the first participant or none, and is us.
Owned(ps) == \A i \in DOMAIN ps : ps[i].owner => i = 1 /\ ps[i].id = Self
NobodyOwns(ps) == \A i \in DOMAIN ps : ~ps[i].owner

\* The subscription of a group was opened for a call that is still there, and
\* who ends this call will cancel it.
Subscribed(g) ==
  /\ subscriptions[g] \in calls
  /\ session[subscriptions[g]].group = g
  /\ \A t \in Thread : job[t].c = subscriptions[g] =>
       /\ job[t].at # "deleting"
       /\ job[t].at = "unsubscribing" => job[t].sub # 0

CallInv ==
  /\ CallTypes
  /\ \A c \in Call : Owned(session[c].participants)
  /\ alive /\ ~stopped => \A g \in Group : subscriptions[g] # 0 => Subscribed(g)

\* The invariant gives what the runs check.
LEMMA CallsSound == CallInv => GroupCallsSound
<1> SUFFICES ASSUME CallInv PROVE GroupCallsSound
  OBVIOUS
<1>1. G!NoSubscriptionLeak
  BY DEF CallInv, Subscribed, G!NoSubscriptionLeak
<1>2. G!OwnerCanEnd
  BY DEF CallInv, CallTypes, Made, Owned, G!OwnerCanEnd, G!MayEnd
<1> QED BY <1>1, <1>2 DEF GroupCallsSound, G!GroupCallsSound

\* The invariant holds at first.
LEMMA CallsInit == G!Init => CallInv
<1> SUFFICES ASSUME G!Init PROVE CallInv
  OBVIOUS
<1>1. G!NoSession \in GroupSession /\ G!NoSession.participants = <<>> /\ G!NoSession.group = 0
  BY EmptySeq DEF G!NoSession, GroupSession, Participants
<1>2. G!Idle \in Job /\ G!Idle.op = "none" /\ G!Idle.at = "idle"
  BY DEF G!Idle, Job
<1>3. CallTypes
  BY <1>1, <1>2 DEF G!Init, CallTypes
<1>4. \A c \in Call : Owned(session[c].participants)
  BY <1>1 DEF G!Init, Owned
<1> QED BY <1>3, <1>4 DEF G!Init, CallInv

-----------------------------------------------------------------------------
(* Group calls: the lists of participants.                                 *)

\* Natural numbers have a least one.
LEMMA LeastIndex ==
  ASSUME NEW J \in SUBSET Nat, J # {}
  PROVE  \E j \in J : \A i \in J : j <= i
<1>1. PICK j \in J : \A i \in J : ~(<<i, j>> \in OpToRel(<, Nat))
  BY NatLessThanWellFounded, WFMin
<1>2. \A i \in J : ~(i < j)
  BY <1>1 DEF OpToRel
<1> QED BY <1>2

\* A list without its k-th element.
LEMMA WithoutOne ==
  ASSUME NEW X, NEW ps \in Seq(X), NEW k \in 1 .. Len(ps),
         NEW r, r = SubSeq(ps, 1, k - 1) \o SubSeq(ps, k + 1, Len(ps))
  PROVE  /\ r \in Seq(X) /\ Len(r) = Len(ps) - 1
         /\ \A i \in 1 .. Len(r) : r[i] = IF i < k THEN ps[i] ELSE ps[i + 1]
<1> DEFINE a == SubSeq(ps, 1, k - 1)
           b == SubSeq(ps, k + 1, Len(ps))
<1>1. a \in Seq(X) /\ Len(a) = k - 1 /\ \A i \in 1 .. k - 1 : a[i] = ps[i]
  OBVIOUS
<1>2. b \in Seq(X) /\ Len(b) = Len(ps) - k /\ \A i \in 1 .. Len(ps) - k : b[i] = ps[i + k]
  OBVIOUS
<1>3. r = a \o b
  OBVIOUS
<1> HIDE DEF a, b
<1>4. /\ a \o b \in Seq(X) /\ Len(a \o b) = Len(a) + Len(b)
      /\ \A i \in 1 .. Len(a) + Len(b) :
           (a \o b)[i] = IF i <= Len(a) THEN a[i] ELSE b[i - Len(a)]
  <2>1. a \in Seq(X) /\ b \in Seq(X)
    BY <1>1, <1>2
  <2> QED BY <2>1, ConcatProperties, Zenon
<1>5. /\ Len(a) + Len(b) = Len(ps) - 1 /\ Len(a) = k - 1 /\ Len(ps) \in Nat /\ k \in Nat
      /\ Len(r) = Len(ps) - 1
  <2>1. Len(a) + Len(b) = Len(ps) - 1 /\ Len(a) = k - 1 /\ Len(ps) \in Nat /\ k \in Nat
    BY <1>1, <1>2
  <2>2. Len(r) = Len(a) + Len(b)
    BY <1>3, <1>4, Zenon
  <2> QED BY <2>1, <2>2
<1>6. PICK t : t = a \o b
  OBVIOUS
<1>7. ASSUME NEW i \in 1 .. Len(ps) - 1 PROVE t[i] = IF i < k THEN ps[i] ELSE ps[i + 1]
  <2>0. t[i] = IF i <= Len(a) THEN a[i] ELSE b[i - Len(a)]
    BY <1>4, <1>5, <1>6, Zenon
  <2>1. CASE i < k
    BY <2>0, <2>1, <1>1, <1>5
  <2>2. CASE i >= k
    <3>1. i - (k - 1) \in 1 .. Len(ps) - k /\ i - (k - 1) + k = i + 1
      BY <2>2, <1>5
    <3>2. t[i] = b[i - (k - 1)]
      BY <2>0, <2>2, <1>5
    <3>3. b[i - (k - 1)] = ps[i - (k - 1) + k]
      BY <1>2, <3>1
    <3> QED BY <2>2, <3>1, <3>2, <3>3
  <2> QED BY <2>1, <2>2
<1>8. r = t
  BY <1>3, <1>6
<1> QED BY <1>3, <1>4, <1>5, <1>7, <1>8

\* Whoever leaves a call takes the owner with it.
LEMMA LeaveList ==
  ASSUME NEW ps \in Participants, Owned(ps),
         NEW r, r = G!RemoveFirstMatch(ps, LAMBDA p : p.id = Self)
  PROVE  r \in Participants /\ NobodyOwns(r)
<1> DEFINE J == {i \in 1 .. Len(ps) : ps[i].id = Self}
<1>1. CASE J = {}
  <2>1. r = ps
    BY <1>1 DEF G!RemoveFirstMatch
  <2>2. DOMAIN ps = 1 .. Len(ps)
    BY DEF Participants
  <2> QED BY <1>1, <2>1, <2>2 DEF Owned, NobodyOwns
<1>2. CASE J # {}
  <2>0. J \in SUBSET Nat
    OBVIOUS
  <2>1. PICK j \in J : \A i \in J : j <= i
    <3> HIDE DEF J
    <3> QED BY <1>2, <2>0, LeastIndex
  <2>2. G!Min(J) \in J /\ \A i \in J : G!Min(J) <= i
    BY <2>1 DEF G!Min
  <2>3. PICK k \in 1 .. Len(ps) : k = G!Min(J)
    BY <2>2
  <2>4. r = G!RemoveAt(ps, k)
    BY <1>2, <2>3, Zenon DEF G!RemoveFirstMatch, G!SelectInSeq
  <2>5. r = SubSeq(ps, 1, k - 1) \o SubSeq(ps, k + 1, Len(ps))
    BY <2>4 DEF G!RemoveAt
  <2>6. /\ r \in Participants /\ Len(r) = Len(ps) - 1
        /\ \A i \in 1 .. Len(r) : r[i] = IF i < k THEN ps[i] ELSE ps[i + 1]
    BY <2>5, WithoutOne, ZenonT(40) DEF Participants
  <2>7. Len(ps) \in Nat /\ DOMAIN ps = 1 .. Len(ps) /\ DOMAIN r = 1 .. Len(r)
    BY <2>6 DEF Participants
  <2>8. ASSUME NEW i \in 1 .. Len(r) PROVE ~r[i].owner
    <3>1. CASE i < k
      <4>1. i \in 1 .. Len(ps) /\ i \notin J
        <5>1. i \in 1 .. Len(ps)
          BY <2>6, <2>7, <3>1
        <5>2. i \notin J
          <6> HIDE DEF J
          <6> QED BY <2>2, <2>3, <3>1, <5>1
        <5> QED BY <5>1, <5>2
      <4> QED BY <2>6, <2>7, <3>1, <4>1 DEF Owned
    <3>2. CASE ~(i < k)
      <4>1. i + 1 \in 1 .. Len(ps) /\ i + 1 # 1
        BY <2>6, <2>7
      <4> QED BY <2>6, <2>7, <3>2, <4>1 DEF Owned
    <3> QED BY <3>1, <3>2
  <2> QED BY <2>6, <2>7, <2>8 DEF NobodyOwns
<1> QED BY <1>1, <1>2

\* An election sorts a list its owner is not in.
LEMMA SortedList ==
  ASSUME NEW ps \in Participants, NobodyOwns(ps), ps # <<>>,
         NEW qs \in G!Sorted(ps)
  PROVE  qs \in Participants /\ NobodyOwns(qs) /\ qs[1].id \in Person
<1> DEFINE R == {ps[i] : i \in DOMAIN ps}
<1>1. ps \in Seq(ParticipantInfo) /\ Len(ps) \in Nat \ {0} /\ DOMAIN ps = 1 .. Len(ps)
  BY DEF Participants
<1>2. G!Range(ps) = R /\ R \subseteq ParticipantInfo /\ R # {}
  BY <1>1 DEF G!Range
<1>3. IsFiniteSet(R)
  <2>1. ps \in Seq(R) /\ \A x \in R : \E i \in 1 .. Len(ps) : ps[i] = x
    BY <1>1
  <2> HIDE DEF R
  <2> QED BY <2>1 DEF IsFiniteSet
<1>4. Cardinality(R) \in Nat \ {0}
  BY <1>2, <1>3, FS_CardinalityType, FS_EmptySet
<1>5. G!Cardinality(R) = Cardinality(R)
  BY DEF G!Cardinality, Cardinality
<1>6. qs \in [1 .. Cardinality(R) -> R]
  BY <1>2, <1>5 DEF G!Sorted, G!SetToSeqs
<1>7. qs \in Seq(ParticipantInfo) /\ DOMAIN qs = 1 .. Cardinality(R) /\ 1 \in DOMAIN qs
  <2> HIDE DEF R
  <2> QED BY <1>2, <1>4, <1>6
<1>8. \A x \in R : ~x.owner
  BY DEF NobodyOwns
<1> HIDE DEF R
<1> QED BY <1>2, <1>6, <1>7, <1>8 DEF Participants, NobodyOwns, ParticipantInfo

-----------------------------------------------------------------------------
(* Group calls: the steps.                                                 *)

\* What a goroutine may be doing.
JobSound(j) ==
  /\ j \in Job
  /\ j.op \in {"join", "leave", "end"} => Made(j.c)
  /\ j.at \in {"ending", "unsubscribing", "deleting"} => Made(j.c)

\* Sessions stay in their groups, and their lists in order.
SessionsStay ==
  /\ session' \in [Call -> GroupSession]
  /\ \A c \in Call : /\ session'[c].group = session[c].group
                     /\ session[c].group = 0 => session'[c] = session[c]
                     /\ Owned(session'[c].participants)

\* Steps that leave the maps alone and bring no goroutine into their removal.
LEMMA QuietStep ==
  ASSUME CallInv, SessionsStay, callOps' \in Nat,
         UNCHANGED <<calls, subscriptions, stopped>>, alive' => alive,
         \A e \in elections' : Made(e.c) /\ e.cand \in Person,
         job' = [t \in Thread |-> job'[t]],
         \A t \in Thread : \/ job'[t] = job[t]
                           \/ JobSound(job'[t]) /\ job'[t].at \notin {"unsubscribing", "deleting"}
  PROVE  CallInv'
<1>1. \A c : Made(c) <=> Made(c)'
  BY DEF SessionsStay, Made
<1>2. \A t \in Thread : JobSound(job'[t])
  BY DEF CallInv, CallTypes, JobSound
<1>3. CallTypes'
  BY <1>1, <1>2, Zenon DEF CallInv, CallTypes, SessionsStay, JobSound
<1>4. ASSUME alive', ~stopped', NEW g \in Group, subscriptions'[g] # 0
      PROVE  Subscribed(g)'
  <2>1. Subscribed(g)
    BY <1>4 DEF CallInv
  <2>2. subscriptions[g] \in Call
    BY <2>1 DEF Subscribed, CallInv, CallTypes, Made
  <2> QED BY <2>1, <2>2 DEF Subscribed, SessionsStay
<1> QED BY <1>3, <1>4 DEF CallInv, SessionsStay

\* One session changes.
LEMMA OneSession ==
  ASSUME CallInv, NEW c, Made(c), NEW s \in GroupSession, s.group = session[c].group,
         Owned(s.participants), session' = [session EXCEPT ![c] = s]
  PROVE  SessionsStay
BY GroupAssumption DEF CallInv, CallTypes, Made, SessionsStay

\* No session changes.
LEMMA NoSessionChange ==
  ASSUME CallInv, UNCHANGED session
  PROVE  SessionsStay
BY DEF CallInv, CallTypes, SessionsStay

\* One goroutine goes on.
LEMMA OneJob ==
  ASSUME CallInv, NEW t \in Thread, NEW j, JobSound(j),
         j.at \notin {"unsubscribing", "deleting"}, job' = [job EXCEPT ![t] = j]
  PROVE  /\ job' = [u \in Thread |-> job'[u]]
         /\ \A u \in Thread : \/ job'[u] = job[u]
                              \/ /\ JobSound(job'[u])
                                 /\ job'[u].at \notin {"unsubscribing", "deleting"}
BY DEF CallInv, CallTypes

\* No goroutine goes on.
LEMMA NoJobChange ==
  ASSUME CallInv, UNCHANGED job
  PROVE  /\ job' = [u \in Thread |-> job'[u]]
         /\ \A u \in Thread : job'[u] = job[u]
BY DEF CallInv, CallTypes

\* A goroutine without a call.
LEMMA IdleSound ==
  ASSUME CallInv
  PROVE  JobSound(G!Idle) /\ G!Idle.at \notin {"unsubscribing", "deleting"}
BY DEF JobSound, G!Idle, Job

\* A list without an owner.
LEMMA NobodyIsOwned == ASSUME NEW ps, NobodyOwns(ps) PROVE Owned(ps)
BY DEF NobodyOwns, Owned

\* An election among participants without an owner.
LEMMA Election ==
  ASSUME CallInv, NEW c, Made(c), NEW s \in GroupSession, s.group = session[c].group,
         NobodyOwns(s.participants), G!runSFUElection(c, s)
  PROVE  SessionsStay /\ \A e \in elections' : Made(e.c) /\ e.cand \in Person
<1>1. \A e \in elections : Made(e.c) /\ e.cand \in Person
  BY DEF CallInv, CallTypes
<1>2. CASE s.participants = <<>>
  BY <1>1, <1>2, NobodyIsOwned, OneSession DEF G!runSFUElection
<1>3. CASE s.participants # <<>>
  <2>1. PICK ps \in G!Sorted(s.participants) :
          /\ session' = [session EXCEPT ![c] = [s EXCEPT !.participants = ps]]
          /\ elections' = elections \cup {[c |-> c, cand |-> ps[1].id, n |-> ps[1].n]}
    BY <1>3 DEF G!runSFUElection
  <2>2. s.participants \in Participants
    BY DEF GroupSession
  <2>3. ps \in Participants /\ NobodyOwns(ps) /\ ps[1].id \in Person
    BY <1>3, <2>2, SortedList
  <2> DEFINE v == [s EXCEPT !.participants = ps]
  <2>4. v \in GroupSession /\ v.group = session[c].group /\ v.participants = ps
    BY <2>3 DEF GroupSession
  <2>5. session' = [session EXCEPT ![c] = v]
    BY <2>1
  <2> HIDE DEF v
  <2>6. SessionsStay
    BY <2>3, <2>4, <2>5, NobodyIsOwned, OneSession
  <2> QED BY <1>1, <2>1, <2>3, <2>6
<1> QED BY <1>2, <1>3

\* A participant without the call's ownership joins the end of a list.
LEMMA AppendList ==
  ASSUME NEW ps \in Participants, NEW p \in ParticipantInfo, ~p.owner,
         NEW r, r = Append(ps, p)
  PROVE  /\ r \in Participants /\ (Owned(ps) => Owned(r)) /\ (NobodyOwns(ps) => NobodyOwns(r))
<1>1. ps \in Seq(ParticipantInfo) /\ Len(ps) \in Nat /\ DOMAIN ps = 1 .. Len(ps)
  BY DEF Participants
<1>2. /\ r \in Seq(ParticipantInfo) /\ DOMAIN r = 1 .. Len(ps) + 1
      /\ \A i \in 1 .. Len(ps) : r[i] = ps[i]
      /\ r[Len(ps) + 1] = p
  BY <1>1
<1>3. \A i \in DOMAIN r : i \in DOMAIN ps \/ i = Len(ps) + 1
  BY <1>1, <1>2
<1> QED BY <1>1, <1>2, <1>3 DEF Participants, Owned, NobodyOwns

\* Who joins owns nothing.
LEMMA Joiner ==
  ASSUME CallInv, NEW id \in Person
  PROVE  G!Participant(id, FALSE) \in ParticipantInfo /\ ~G!Participant(id, FALSE).owner
BY DEF CallInv, CallTypes, G!Participant, ParticipantInfo

\* Creating a call: no goroutine ends what was not there.
LEMMA CreateKeeps ==
  ASSUME CallInv, NEW c \in Call, NEW g \in Group, G!CreateGroupCall(c, g)
  PROVE  CallInv'
<1> DEFINE p == G!Participant(Self, TRUE)
           s == [G!NoSession EXCEPT !.group = g, !.participants = <<p>>]
<1>1. /\ callOps' \in Nat /\ session[c] = G!NoSession
      /\ session' = [session EXCEPT ![c] = s]
      /\ calls' = calls \cup {c}
      /\ subscriptions' = [subscriptions EXCEPT ![g] = IF @ = 0 THEN c ELSE @]
      /\ UNCHANGED <<closed, job, elections, stopped, alive>>
  BY DEF CallInv, CallTypes, G!CreateGroupCall, G!Op
<1>2. p \in ParticipantInfo /\ p.id = Self /\ p.owner
  BY DEF CallInv, CallTypes, G!Participant, ParticipantInfo, Person
<1>3. s \in GroupSession /\ s.group = g /\ Owned(s.participants)
  <2>1. PICK q \in ParticipantInfo : q = p
    BY <1>2
  <2>2. <<q>> \in Participants /\ DOMAIN <<q>> = {1} /\ <<q>>[1] = q
    BY DEF Participants
  <2>3. Owned(<<q>>)
    BY <1>2, <2>1, <2>2 DEF Owned
  <2>4. s = [G!NoSession EXCEPT !.group = g, !.participants = <<q>>]
    BY <2>1
  <2>5. PICK ps \in Participants : ps = <<q>>
    BY <2>2
  <2>6. s = [G!NoSession EXCEPT !.group = g, !.participants = ps]
    BY <2>4, <2>5, Zenon
  <2> HIDE DEF s
  <2>7. s = [group |-> g, sfuMode |-> FALSE, ended |-> FALSE, participants |-> ps, sfu |-> 0,
             served |-> FALSE]
    BY <2>6 DEF G!NoSession
  <2> QED BY <2>3, <2>5, <2>7 DEF GroupSession
<1> HIDE DEF s
<1>4. session[c].group = 0 /\ ~Made(c)
  BY <1>1, GroupAssumption DEF G!NoSession, Made
<1>5. CallTypes'
  <2>1. \A d : Made(d) => Made(d)'
    BY <1>1, <1>3 DEF CallInv, CallTypes, Made
  <2>2. Made(c)'
    BY <1>1, <1>3 DEF CallInv, CallTypes, Made
  <2>3. session' \in [Call -> GroupSession]
    BY <1>1, <1>3 DEF CallInv, CallTypes
  <2>4. \A d \in Call : session'[d].group = 0 => session'[d] = G!NoSession
    BY <1>1, <1>3, GroupAssumption DEF CallInv, CallTypes
  <2>5. subscriptions' \in [Group -> Call \cup {0}]
    BY <1>1 DEF CallInv, CallTypes
  <2> QED BY <1>1, <2>1, <2>2, <2>3, <2>4, <2>5 DEF CallInv, CallTypes
<1>6. \A d \in Call : Owned(session'[d].participants)
  BY <1>1, <1>3 DEF CallInv, CallTypes
<1>7. ASSUME alive', ~stopped', NEW h \in Group, subscriptions'[h] # 0
      PROVE  Subscribed(h)'
  <2>1. CASE subscriptions[h] # 0
    <3>1. Subscribed(h) /\ subscriptions[h] \in Call /\ subscriptions[h] # c
      BY <1>1, <1>4, <1>7, <2>1 DEF CallInv, CallTypes, Subscribed, Made
    <3>2. subscriptions'[h] = subscriptions[h]
      BY <1>1, <2>1 DEF CallInv, CallTypes
    <3> QED BY <1>1, <3>1, <3>2 DEF CallInv, CallTypes, Subscribed
  <2>2. CASE subscriptions[h] = 0
    <3>1. h = g /\ subscriptions'[h] = c
      BY <1>1, <1>7, <2>2 DEF CallInv, CallTypes
    <3>2. \A t \in Thread : job[t].c = c => job[t].at \notin {"unsubscribing", "deleting"}
      BY <1>4 DEF CallInv, CallTypes
    <3> QED BY <1>1, <1>3, <3>1, <3>2 DEF CallInv, CallTypes, Subscribed
  <2> QED BY <2>1, <2>2
<1> QED BY <1>5, <1>6, <1>7 DEF CallInv

\* Ending a call: the subscription looked up is the one of the call's group.
LEMMA EndKeeps ==
  ASSUME CallInv, NEW t \in Thread, G!endCallInternal(t)
  PROVE  CallInv'
<1> DEFINE c == job[t].c
           s == [session[c] EXCEPT !.ended = TRUE]
           j == [job[t] EXCEPT !.at = "unsubscribing", !.sub = subscriptions[session[c].group]]
<1>1. /\ job[t].at = "ending" /\ session' = [session EXCEPT ![c] = s]
      /\ job' = [job EXCEPT ![t] = j]
      /\ UNCHANGED <<calls, subscriptions, closed, elections, callOps, stopped, alive>>
  BY DEF G!endCallInternal, G!Go
<1>2. Made(c) /\ job[t] \in Job
  BY <1>1 DEF CallInv, CallTypes
<1>3. /\ s \in GroupSession /\ s.group = session[c].group
      /\ s.participants = session[c].participants
  <2>1. session[c] \in GroupSession
    BY <1>2 DEF CallInv, CallTypes, Made
  <2> QED BY <2>1 DEF GroupSession
<1>4. /\ j \in Job /\ j.op = job[t].op /\ j.c = c /\ j.at = "unsubscribing"
      /\ j.sub = subscriptions[session[c].group]
  BY <1>2 DEF CallInv, CallTypes, Made, Job
<1> HIDE DEF s, j
<1>5. SessionsStay
  <2>1. Owned(s.participants)
    BY <1>2, <1>3 DEF CallInv, Made
  <2> QED BY <1>1, <1>2, <1>3, <2>1, OneSession
<1>6. \A d : Made(d) <=> Made(d)'
  BY <1>5 DEF SessionsStay, Made
<1>7. \A u \in Thread : JobSound(job'[u])
  BY <1>1, <1>2, <1>4 DEF CallInv, CallTypes, JobSound
<1>8. job' \in [Thread -> Job]
  BY <1>1, <1>4 DEF CallInv, CallTypes
<1>9. CallTypes'
  BY <1>1, <1>5, <1>6, <1>7, <1>8, Zenon DEF CallInv, CallTypes, SessionsStay, JobSound
<1>10. ASSUME alive', ~stopped', NEW g \in Group, subscriptions'[g] # 0
       PROVE  Subscribed(g)'
  <2>1. Subscribed(g) /\ subscriptions[g] \in Call
    BY <1>1, <1>10 DEF CallInv, CallTypes, Subscribed, Made
  <2>2. session'[subscriptions[g]].group = g
    BY <1>5, <2>1 DEF SessionsStay, Subscribed
  <2>3. ASSUME NEW u \in Thread, job'[u].c = subscriptions[g]
        PROVE  job'[u].at # "deleting" /\ (job'[u].at = "unsubscribing" => job'[u].sub # 0)
    <3>1. CASE u = t
      <4>1. job'[u] = j
        BY <1>1, <3>1 DEF CallInv, CallTypes
      <4> QED BY <1>1, <1>4, <1>10, <2>1, <2>3, <4>1 DEF Subscribed
    <3>2. CASE u # t
      <4>1. job'[u] = job[u]
        BY <1>1, <3>2 DEF CallInv, CallTypes
      <4> QED BY <2>1, <2>3, <4>1 DEF Subscribed
    <3> QED BY <3>1, <3>2
  <2> QED BY <1>1, <2>1, <2>2, <2>3 DEF Subscribed
<1> QED BY <1>5, <1>9, <1>10 DEF CallInv, SessionsStay

\* Steps of one goroutine that leave the sessions alone keep the types.
LEMMA TypesKeep ==
  ASSUME CallInv, UNCHANGED <<session, callOps>>,
         calls' \subseteq calls, elections' \subseteq elections,
         subscriptions' \in [Group -> Call \cup {0}],
         NEW t \in Thread, NEW j, JobSound(j), job' = [job EXCEPT ![t] = j]
  PROVE  CallTypes' /\ \A d \in Call : Owned(session'[d].participants)
<1>1. \A d : Made(d) <=> Made(d)'
  BY DEF Made
<1>2. job' \in [Thread -> Job] /\ \A u \in Thread : JobSound(job'[u])
  BY DEF CallInv, CallTypes, JobSound
<1> QED BY <1>1, <1>2 DEF CallInv, CallTypes, JobSound

\* Cancelling: whatever subscription the group has now is taken from the map.
LEMMA UnsubscribeKeeps ==
  ASSUME CallInv, NEW t \in Thread, G!unsubscribeFromGroupCallTopic(t)
  PROVE  CallInv'
<1> DEFINE c == job[t].c
           j == [job[t] EXCEPT !.at = "deleting"]
           g == session[c].group
<1>1. /\ alive /\ job[t].at = "unsubscribing" /\ job' = [job EXCEPT ![t] = j]
      /\ job[t].sub = 0 => UNCHANGED subscriptions
      /\ job[t].sub # 0 => subscriptions' = [subscriptions EXCEPT ![g] = 0]
      /\ UNCHANGED <<calls, session, elections, callOps, stopped>>
  BY DEF G!unsubscribeFromGroupCallTopic, G!Go
<1>2. Made(c) /\ job[t] \in Job
  BY <1>1 DEF CallInv, CallTypes
<1>3. JobSound(j) /\ j.c = c
  BY <1>2 DEF CallInv, CallTypes, Job, JobSound
<1>4. subscriptions' \in [Group -> Call \cup {0}]
  BY <1>1 DEF CallInv, CallTypes
<1> HIDE DEF j
<1>5. CallTypes' /\ \A d \in Call : Owned(session'[d].participants)
  BY <1>1, <1>3, <1>4, TypesKeep
<1>6. ASSUME alive', ~stopped', NEW h \in Group, subscriptions'[h] # 0
      PROVE  Subscribed(h)'
  <2>1. subscriptions'[h] = subscriptions[h] /\ (job[t].sub # 0 => h # g)
    BY <1>1, <1>2, <1>6 DEF CallInv, CallTypes, Made
  <2>2. Subscribed(h)
    BY <1>1, <1>6, <2>1 DEF CallInv
  <2>3. subscriptions[h] # c
    BY <1>1, <2>1, <2>2 DEF Subscribed
  <2>4. \A u \in Thread : job'[u].c = subscriptions[h] => job'[u] = job[u]
    BY <1>1, <1>3, <2>3 DEF CallInv, CallTypes
  <2> QED BY <1>1, <2>1, <2>2, <2>4 DEF Subscribed
<1> QED BY <1>5, <1>6 DEF CallInv

\* Deleting: the call has no subscription any more.
LEMMA DeleteKeeps ==
  ASSUME CallInv, NEW t \in Thread, G!DeleteCall(t)
  PROVE  CallInv'
<1> DEFINE c == job[t].c
<1>1. PICK j : /\ alive /\ job[t].at = "deleting" /\ calls' = calls \ {c}
               /\ j = IF job[t].op = "stop"
                      THEN [job[t] EXCEPT !.at = "stopping", !.sub = 0] ELSE G!Idle
               /\ job' = [job EXCEPT ![t] = j]
               /\ UNCHANGED <<session, subscriptions, closed, elections, callOps, stopped, alive>>
  BY DEF G!DeleteCall, G!Go
<1>2. JobSound(j) /\ j.at \notin {"unsubscribing", "deleting"}
  BY <1>1, IdleSound DEF CallInv, CallTypes, Job, JobSound
<1>3. CallTypes' /\ \A d \in Call : Owned(session'[d].participants)
  <2>1. subscriptions' \in [Group -> Call \cup {0}]
    BY <1>1 DEF CallInv, CallTypes
  <2> QED BY <1>1, <1>2, <2>1, TypesKeep
<1>4. ASSUME alive', ~stopped', NEW h \in Group, subscriptions'[h] # 0
      PROVE  Subscribed(h)'
  <2>1. Subscribed(h)
    BY <1>1, <1>4 DEF CallInv
  <2>2. subscriptions[h] # c
    BY <1>1, <2>1 DEF Subscribed
  <2>3. \A u \in Thread : job'[u] = job[u] \/ job'[u] = j
    BY <1>1 DEF CallInv, CallTypes
  <2> QED BY <1>1, <1>2, <2>1, <2>2, <2>3 DEF Subscribed
<1> QED BY <1>3, <1>4 DEF CallInv

\* Stop is over: the subscriptions it leaves in the map are beyond the claim.
LEMMA StopEndsKeeps ==
  ASSUME CallInv, NEW t \in Thread, G!StopEnds(t)
  PROVE  CallInv'
<1>1. /\ stopped' = TRUE /\ elections' = {} /\ job' = [job EXCEPT ![t] = G!Idle]
      /\ UNCHANGED <<calls, session, subscriptions, callOps>>
  BY DEF G!StopEnds, G!Go
<1>2. subscriptions' \in [Group -> Call \cup {0}]
  BY <1>1 DEF CallInv, CallTypes
<1>3. CallTypes' /\ \A d \in Call : Owned(session'[d].participants)
  BY <1>1, <1>2, IdleSound, TypesKeep
<1> QED BY <1>1, <1>3 DEF CallInv

\* A participant the application hears of.
LEMMA HeardKeeps ==
  ASSUME CallInv, NEW c \in Call, NEW id \in Ident, G!ParticipantHeard(c, id)
  PROVE  CallInv'
<1>1. /\ c \in G!Created /\ callOps' \in Nat
      /\ session' = [session EXCEPT ![c].participants = Append(@, G!Participant(id, FALSE))]
      /\ UNCHANGED <<calls, subscriptions, closed, job, elections, stopped, alive>>
  BY DEF CallInv, CallTypes, G!ParticipantHeard, G!Op
<1>2. Made(c)
  BY <1>1 DEF CallInv, CallTypes, Made, GroupSession, G!Created
<1>3. PICK p \in ParticipantInfo : p = G!Participant(id, FALSE) /\ ~p.owner
  <2>1. id \in Person
    BY DEF Person
  <2> QED BY <2>1, Joiner
<1>4. session[c] \in GroupSession /\ session[c].participants \in Participants
  BY DEF CallInv, CallTypes, GroupSession
<1>5. PICK ps : ps = Append(session[c].participants, p)
  OBVIOUS
<1>6. ps \in Participants /\ Owned(ps)
  <2>1. Owned(session[c].participants)
    BY DEF CallInv
  <2> QED BY <1>3, <1>4, <1>5, <2>1, AppendList, ZenonT(40)
<1>7. PICK s : s = [session[c] EXCEPT !.participants = ps]
  OBVIOUS
<1>8. s \in GroupSession /\ s.group = session[c].group /\ s.participants = ps
  BY <1>4, <1>6, <1>7 DEF GroupSession
<1>9. session' = [session EXCEPT ![c] = s]
  BY <1>1, <1>3, <1>5, <1>7, Zenon
<1>10. SessionsStay
  BY <1>2, <1>6, <1>8, <1>9, OneSession
<1>11. \A e \in elections' : Made(e.c) /\ e.cand \in Person
  BY <1>1 DEF CallInv, CallTypes
<1> QED BY <1>1, <1>10, <1>11, NoJobChange, QuietStep

\* Joining: who is not in the call owns nothing of it.
LEMMA JoinKeeps ==
  ASSUME CallInv, NEW t \in Thread, G!JoinGroupCall(t)
  PROVE  CallInv'
<1> DEFINE c == job[t].c
           joined == [session[c] EXCEPT !.participants = Append(@, G!Participant(Self, FALSE))]
<1>1. /\ job[t].op = "join" /\ job' = [job EXCEPT ![t] = G!Idle]
      /\ UNCHANGED <<calls, subscriptions, closed, callOps, stopped, alive>>
      /\ \/ UNCHANGED <<session, elections>>
         \/ /\ Self \notin G!Ids(session[c])
            /\ \/ G!runSFUElection(c, [joined EXCEPT !.sfuMode = TRUE])
               \/ session' = [session EXCEPT ![c] = joined] /\ UNCHANGED elections
  BY DEF G!JoinGroupCall, G!Go
<1>2. Made(c) /\ callOps' \in Nat
  BY <1>1 DEF CallInv, CallTypes
<1>3. \A e \in elections : Made(e.c) /\ e.cand \in Person
  BY DEF CallInv, CallTypes
<1>4. SessionsStay /\ \A e \in elections' : Made(e.c) /\ e.cand \in Person
  <2>1. CASE UNCHANGED <<session, elections>>
    BY <1>3, <2>1, NoSessionChange
  <2>2. CASE Self \notin G!Ids(session[c])
    <3>1. PICK p \in ParticipantInfo : p = G!Participant(Self, FALSE) /\ ~p.owner
      <4>1. Self \in Person
        BY DEF Person
      <4> QED BY <4>1, Joiner
    <3>2. session[c] \in GroupSession /\ session[c].participants \in Participants
      BY <1>2 DEF CallInv, CallTypes, GroupSession, Made
    <3>3. NobodyOwns(session[c].participants)
      BY <1>2, <2>2 DEF CallInv, Made, Owned, NobodyOwns, G!Ids
    <3>4. PICK ps : ps = Append(session[c].participants, p)
      OBVIOUS
    <3>5. ps \in Participants /\ NobodyOwns(ps) /\ Owned(ps)
      <4>1. ps \in Participants /\ NobodyOwns(ps)
        BY <3>1, <3>2, <3>3, <3>4, AppendList, ZenonT(40)
      <4> QED BY <4>1, NobodyIsOwned
    <3>6. joined = [session[c] EXCEPT !.participants = ps]
      BY <3>1, <3>4, Zenon
    <3> HIDE DEF joined
    <3>7. joined \in GroupSession /\ joined.group = session[c].group /\ joined.participants = ps
      BY <3>2, <3>5, <3>6 DEF GroupSession
    <3>8. PICK s : s = [joined EXCEPT !.sfuMode = TRUE]
      OBVIOUS
    <3>9. s \in GroupSession /\ s.group = session[c].group /\ s.participants = ps
      BY <3>7, <3>8 DEF GroupSession
    <3>10. CASE G!runSFUElection(c, [joined EXCEPT !.sfuMode = TRUE])
      <4>1. G!runSFUElection(c, s)
        BY <3>8, <3>10, Zenon
      <4> QED BY <1>2, <3>5, <3>9, <4>1, Election
    <3>11. CASE session' = [session EXCEPT ![c] = joined] /\ UNCHANGED elections
      BY <1>2, <1>3, <3>5, <3>7, <3>11, OneSession
    <3>12. CASE UNCHANGED <<session, elections>>
      BY <1>3, <3>12, NoSessionChange
    <3> QED BY <1>1, <3>10, <3>11, <3>12
  <2> QED BY <1>1, <2>1, <2>2
<1> QED BY <1>1, <1>2, <1>4, IdleSound, OneJob, QuietStep

\* Leaving: nobody owns the call any more, and an election may sort the list.
LEMMA LeaveKeeps ==
  ASSUME CallInv, NEW t \in Thread, G!LeaveGroupCall(t)
  PROVE  CallInv'
<1> DEFINE c == job[t].c
           r == G!RemoveFirstMatch(session[c].participants, LAMBDA p : p.id = Self)
<1>1. /\ job[t].op = "leave" /\ job' = [job EXCEPT ![t] = G!Idle]
      /\ UNCHANGED <<calls, subscriptions, closed, callOps, stopped, alive>>
      /\ \/ G!runSFUElection(c, [session[c] EXCEPT !.participants = r])
         \/ /\ session' = [session EXCEPT ![c] = [session[c] EXCEPT !.participants = r]]
            /\ UNCHANGED elections
  BY DEF G!LeaveGroupCall, G!Go
<1>2. Made(c) /\ callOps' \in Nat
  BY <1>1 DEF CallInv, CallTypes
<1>3. session[c] \in GroupSession /\ session[c].participants \in Participants
  BY <1>2 DEF CallInv, CallTypes, GroupSession, Made
<1>4. PICK ps : ps = r
  OBVIOUS
<1>5. ps \in Participants /\ NobodyOwns(ps)
  <2>1. Owned(session[c].participants)
    BY <1>2 DEF CallInv, Made
  <2> QED BY <1>3, <1>4, <2>1, LeaveList
<1>6. PICK s : s = [session[c] EXCEPT !.participants = ps]
  OBVIOUS
<1>7. s \in GroupSession /\ s.group = session[c].group /\ s.participants = ps
  BY <1>3, <1>5, <1>6 DEF GroupSession
<1>8. \/ G!runSFUElection(c, s)
      \/ session' = [session EXCEPT ![c] = s] /\ UNCHANGED elections
  BY <1>1, <1>4, <1>6, Zenon
<1>9. SessionsStay /\ \A e \in elections' : Made(e.c) /\ e.cand \in Person
  <2>1. \A e \in elections : Made(e.c) /\ e.cand \in Person
    BY DEF CallInv, CallTypes
  <2>2. CASE G!runSFUElection(c, s)
    BY <1>2, <1>5, <1>7, <2>2, Election
  <2>3. CASE session' = [session EXCEPT ![c] = s] /\ UNCHANGED elections
    BY <1>2, <1>5, <1>7, <2>1, <2>3, NobodyIsOwned, OneSession
  <2> QED BY <1>8, <2>2, <2>3
<1> QED BY <1>1, <1>2, <1>9, IdleSound, OneJob, QuietStep

\* Confirming: the list stays as it is but for who forwards.
LEMMA ConfirmKeeps ==
  ASSUME CallInv, NEW e \in elections, G!ConfirmElection(e)
  PROVE  CallInv'
<1> DEFINE c == e.c
           old == session[c].participants
           elected == {i \in DOMAIN old : old[i].id = e.cand /\ old[i].n = e.n}
           new == [i \in DOMAIN old |-> IF i \in elected
                                        THEN [old[i] EXCEPT !.sfu = TRUE] ELSE old[i]]
           served == session[c].served \/ elected # {}
<1>1. /\ elections' = elections \ {e}
      /\ session' = [session EXCEPT ![c] =
           [session[c] EXCEPT !.sfu = e.cand, !.participants = new, !.served = served]]
      /\ UNCHANGED <<calls, subscriptions, closed, job, callOps, stopped, alive>>
  BY Zenon DEF G!ConfirmElection
<1> HIDE DEF elected
<1>2. Made(c) /\ e.cand \in Person /\ callOps' \in Nat
  BY <1>1 DEF CallInv, CallTypes
<1>3. session[c] \in GroupSession /\ old \in Participants
  BY <1>2 DEF CallInv, CallTypes, GroupSession, Made
<1>4. /\ Len(old) \in Nat /\ DOMAIN old = 1 .. Len(old)
      /\ \A i \in 1 .. Len(old) : old[i] \in ParticipantInfo
  BY <1>3 DEF Participants
<1>5. /\ DOMAIN new = DOMAIN old
      /\ \A i \in DOMAIN old : /\ new[i] \in ParticipantInfo
                               /\ new[i].owner = old[i].owner /\ new[i].id = old[i].id
  BY <1>4 DEF ParticipantInfo
<1>6. new \in Participants /\ Owned(new)
  <2>1. Owned(old)
    BY <1>2 DEF CallInv, Made
  <2>2. new = [i \in 1 .. Len(old) |-> new[i]]
    BY <1>4
  <2> HIDE DEF new
  <2>3. new \in [1 .. Len(old) -> ParticipantInfo]
    BY <1>4, <1>5, <2>2
  <2>4. new \in Participants
    BY <1>4, <2>3 DEF Participants
  <2>5. Owned(new)
    BY <1>5, <2>1 DEF Owned
  <2> QED BY <2>4, <2>5
<1>7. PICK ps \in Participants : ps = new
  BY <1>6
<1>8. PICK b \in BOOLEAN : b = served
  OBVIOUS
<1> HIDE DEF new, served
<1>9. PICK s : s = [session[c] EXCEPT !.sfu = e.cand, !.participants = ps, !.served = b]
  OBVIOUS
<1>10. s \in GroupSession /\ s.group = session[c].group /\ s.participants = ps
  BY <1>2, <1>3, <1>9 DEF GroupSession
<1>11. session' = [session EXCEPT ![c] = s]
  BY <1>1, <1>7, <1>9, <1>8, Zenon
<1>12. SessionsStay
  <2>1. Owned(s.participants)
    BY <1>6, <1>7, <1>10
  <2>2. s \in GroupSession /\ s.group = session[c].group
    BY <1>10
  <2> HIDE DEF c, old
  <2> QED BY <1>2, <1>11, <2>1, <2>2, OneSession
<1>13. \A d \in elections' : Made(d.c) /\ d.cand \in Person
  BY <1>1 DEF CallInv, CallTypes
<1> QED BY <1>1, <1>2, <1>12, <1>13, NoJobChange, QuietStep

\* A goroutine that only goes on.
LEMMA GoKeeps ==
  ASSUME CallInv, NEW t \in Thread, NEW j, JobSound(j), j.at \notin {"unsubscribing", "deleting"},
         job' = [job EXCEPT ![t] = j], callOps' \in Nat, alive' => alive,
         UNCHANGED <<calls, session, subscriptions, elections, stopped>>
  PROVE  CallInv'
<1>1. \A e \in elections' : Made(e.c) /\ e.cand \in Person
  BY DEF CallInv, CallTypes
<1> QED BY <1>1, NoSessionChange, OneJob, QuietStep

\* The process ends, or nothing of the manager changes.
LEMMA StillKeeps ==
  ASSUME CallInv, callOps' \in Nat, alive' => alive,
         UNCHANGED <<calls, session, subscriptions, elections, stopped, job>>
  PROVE  CallInv'
<1>1. \A e \in elections' : Made(e.c) /\ e.cand \in Person
  BY DEF CallInv, CallTypes
<1> QED BY <1>1, NoSessionChange, NoJobChange, QuietStep

\* The invariant is inductive.
LEMMA CallsKeep == CallInv /\ [G!Next]_(G!vars) => CallInv'
<1> SUFFICES ASSUME CallInv, [G!Next]_(G!vars) PROVE CallInv'
  OBVIOUS
<1>0. callOps \in Nat /\ \A t \in Thread : JobSound(job[t])
  BY DEF CallInv, CallTypes, JobSound
<1>1. ASSUME NEW c \in Call, NEW g \in Group, G!CreateGroupCall(c, g) PROVE CallInv'
  BY <1>1, CreateKeeps
<1>2. ASSUME NEW c \in Call, NEW id \in Ident, G!ParticipantHeard(c, id) PROVE CallInv'
  BY <1>2, HeardKeeps
<1>3. ASSUME NEW c \in Call, NEW t \in Thread, NEW op \in {"join", "leave", "end"},
             G!Find(t, op, c)
      PROVE  CallInv'
  <2>1. PICK j : j = [G!Idle EXCEPT !.op = op, !.at = "found", !.c = c]
    OBVIOUS
  <2>2. Made(c)
    BY <1>3 DEF G!Find, CallInv, CallTypes
  <2>3. JobSound(j) /\ j.at \notin {"unsubscribing", "deleting"}
    BY <2>1, <2>2 DEF JobSound, G!Idle, Job
  <2>4. /\ job' = [job EXCEPT ![t] = j] /\ callOps' \in Nat
        /\ UNCHANGED <<calls, session, subscriptions, elections, stopped, alive>>
    BY <1>0, <1>3, <2>1 DEF G!Find, G!Go, G!Op
  <2> QED BY <2>3, <2>4, GoKeeps
<1>4. ASSUME NEW t \in Thread, G!Stop(t) PROVE CallInv'
  <2>1. PICK j : j = [G!Idle EXCEPT !.op = "stop", !.at = "stopping"]
    OBVIOUS
  <2>2. JobSound(j) /\ j.at \notin {"unsubscribing", "deleting"}
    BY <2>1 DEF JobSound, G!Idle, Job
  <2>3. /\ job' = [job EXCEPT ![t] = j] /\ callOps' \in Nat
        /\ UNCHANGED <<calls, session, subscriptions, elections, stopped, alive>>
    BY <1>0, <1>4, <2>1 DEF G!Stop, G!Go, G!Op
  <2> QED BY <2>2, <2>3, GoKeeps
<1>5. ASSUME NEW t \in Thread, G!EndGroupCall(t) PROVE CallInv'
  <2>1. PICK j : j = IF G!MayEnd(session[job[t].c]) THEN [job[t] EXCEPT !.at = "ending"] ELSE G!Idle
    OBVIOUS
  <2>2. job[t].op = "end" /\ JobSound(job[t])
    BY <1>0, <1>5 DEF G!EndGroupCall
  <2>3. JobSound(j) /\ j.at \notin {"unsubscribing", "deleting"}
    BY <2>1, <2>2, IdleSound DEF JobSound, Job
  <2>4. /\ callOps' \in Nat /\ (alive' => alive)
        /\ UNCHANGED <<calls, session, subscriptions, elections, stopped>>
        /\ job' = [job EXCEPT ![t] = j] \/ UNCHANGED job
    BY <1>0, <1>5, <2>1 DEF G!EndGroupCall, G!Go
  <2> QED BY <2>3, <2>4, GoKeeps, StillKeeps
<1>6. ASSUME NEW t \in Thread, NEW c \in Call, G!StopCall(t, c) PROVE CallInv'
  <2>1. PICK j : j = [job[t] EXCEPT !.at = "ending", !.c = c]
    OBVIOUS
  <2>2. Made(c) /\ JobSound(job[t]) /\ job[t].op = "stop"
    BY <1>0, <1>6 DEF G!StopCall, CallInv, CallTypes
  <2>3. JobSound(j) /\ j.at \notin {"unsubscribing", "deleting"}
    BY <2>1, <2>2 DEF JobSound, Job, Made
  <2>4. /\ job' = [job EXCEPT ![t] = j] /\ callOps' \in Nat
        /\ UNCHANGED <<calls, session, subscriptions, elections, stopped, alive>>
    BY <1>0, <1>6, <2>1 DEF G!StopCall, G!Go
  <2> QED BY <2>3, <2>4, GoKeeps
<1>7. ASSUME NEW t \in Thread, G!Step(t) PROVE CallInv'
  BY <1>5, <1>6, <1>7, JoinKeeps, LeaveKeeps, EndKeeps, UnsubscribeKeeps, DeleteKeeps,
     StopEndsKeeps DEF G!Step
<1>8. ASSUME G!Confirm PROVE CallInv'
  BY <1>8, ConfirmKeeps DEF G!Confirm
<1>9. ASSUME G!MapRace PROVE CallInv'
  <2>1. /\ callOps' \in Nat /\ (alive' => alive)
        /\ UNCHANGED <<calls, session, subscriptions, elections, stopped, job>>
    BY <1>0, <1>9 DEF G!MapRace
  <2> QED BY <2>1, StillKeeps
<1>10. ASSUME UNCHANGED G!vars PROVE CallInv'
  <2>1. /\ callOps' \in Nat /\ (alive' => alive)
        /\ UNCHANGED <<calls, session, subscriptions, elections, stopped, job>>
    BY <1>0, <1>10 DEF G!vars
  <2> QED BY <2>1, StillKeeps
<1> QED BY <1>1, <1>2, <1>3, <1>4, <1>7, <1>8, <1>9, <1>10 DEF G!Next

\* Whichever goroutines create, join, leave and end calls at once, the owner can
\* end a call until it leaves, elections do not take that from it, and while the
\* manager runs no subscription outlives the calls of its group
\* (GroupCallManager: CreateGroupCall, EndGroupCall, endCallInternal, runSFUElection).
THEOREM GroupCallsKeep == G!Spec => []GroupCallsSound
<1>1. G!Init => CallInv
  BY CallsInit
<1>2. CallInv /\ [G!Next]_(G!vars) => CallInv'
  BY CallsKeep
<1>3. CallInv => GroupCallsSound
  BY CallsSound
<1> QED BY <1>1, <1>2, <1>3, PTL DEF G!Spec

-----------------------------------------------------------------------------
(* Channels: the chain of posts.                                           *)

ChannelState ==
  [kind : {"none", "private", "public"}, head : Nat, count : Nat, updated : Nat,
   sig : Nat \X Nat \X Nat]
Post == [c : Channel, prev : Nat, time : Nat]

\* The posts of a channel before one, and the last of some posts.
Before(c, p) == {q \in 1 .. p - 1 : storedPosts[q].c = c}
IsLast(h, Q) == IF Q = {} THEN h = 0 ELSE h \in Q /\ \A q \in Q : q <= h

\* Every post leads to the one of its channel before it.
Linked == \A p \in 1 .. Len(storedPosts) : IsLast(storedPosts[p].prev, Before(storedPosts[p].c, p))
PostsTyped == storedPosts \in Seq(Post)

\* A post leads to an earlier one or to none.
LEMMA LinkedBack ==
  ASSUME PostsTyped, Linked, NEW p \in 1 .. Len(storedPosts)
  PROVE  storedPosts[p].prev \in 0 .. p - 1
<1>1. p \in Nat
  BY DEF PostsTyped
<1> QED BY <1>1 DEF Linked, IsLast, Before

\* Following the links of the first n elements of a sequence.
IsChain(f, s, n) ==
  f = [p \in 0 .. n |-> IF p = 0 THEN {} ELSE {p} \cup f[s[p].prev]]

\* Links that lead back have no cycle, so that following them is well defined.
LEMMA ChainExists ==
  ASSUME NEW s, Len(s) \in Nat, \A p \in 1 .. Len(s) : s[p].prev \in 0 .. p - 1,
         NEW n \in 0 .. Len(s)
  PROVE  \E f : IsChain(f, s, n)
<1>0. Len(s) \in Nat
  OBVIOUS
<1> DEFINE J == {m \in 0 .. Len(s) : ~\E f : IsChain(f, s, m)}
<1>1. SUFFICES ASSUME J # {} PROVE FALSE
  OBVIOUS
<1>2. PICK j \in J : \A i \in J : j <= i
  <2>1. J \in SUBSET Nat
    BY <1>0
  <2> HIDE DEF J
  <2> QED BY <1>1, <2>1, LeastIndex
<1>3. CASE j = 0
  <2> DEFINE f == [p \in 0 .. 0 |-> {}]
  <2>1. IsChain(f, s, 0)
    BY DEF IsChain
  <2> QED BY <1>3, <2>1
<1>4. CASE j # 0
  <2>1. j \in Nat /\ j - 1 \in 0 .. Len(s) /\ j - 1 \notin J
    <3>1. j \in 1 .. Len(s) /\ j - 1 \in 0 .. Len(s)
      BY <1>0, <1>4
    <3> HIDE DEF J
    <3> QED BY <1>2, <3>1
  <2>2. PICK f : IsChain(f, s, j - 1)
    BY <2>1
  <2>3. s[j].prev \in 0 .. j - 1
    BY <1>0, <1>4, <2>1
  <2> DEFINE g == [p \in 0 .. j |-> IF p = j THEN {j} \cup f[s[j].prev] ELSE f[p]]
  <2>4. ASSUME NEW p \in 0 .. j
        PROVE  g[p] = IF p = 0 THEN {} ELSE {p} \cup g[s[p].prev]
    <3>1. CASE p = j
      BY <1>4, <2>1, <2>3, <3>1
    <3>2. CASE p # j
      <4>1. p \in 0 .. j - 1 /\ g[p] = f[p]
        BY <2>1, <3>2
      <4>2. f[p] = IF p = 0 THEN {} ELSE {p} \cup f[s[p].prev]
        BY <2>2, <4>1 DEF IsChain
      <4>3. CASE p # 0
        <5>1. p \in 1 .. Len(s)
          BY <1>0, <2>1, <4>1, <4>3
        <5>2. s[p].prev \in 0 .. p - 1
          BY <5>1
        <5>3. s[p].prev \in 0 .. j /\ s[p].prev # j
          BY <2>1, <4>1, <5>2
        <5> QED BY <4>1, <4>2, <4>3, <5>3
      <4> QED BY <4>1, <4>2, <4>3
    <3> QED BY <3>1, <3>2
  <2>5. g = [p \in 0 .. j |-> g[p]]
    OBVIOUS
  <2> HIDE DEF g
  <2>6. IsChain(g, s, j)
    BY <2>4, <2>5, Zenon DEF IsChain
  <2> QED BY <2>6
<1> QED BY <1>3, <1>4

\* Following the links, one step at a time.
LEMMA ChainStep ==
  ASSUME PostsTyped, Linked
  PROVE  \A p \in 0 .. Len(storedPosts) :
           C!ChainFrom[p] = IF p = 0 THEN {} ELSE {p} \cup C!ChainFrom[storedPosts[p].prev]
<1>1. PICK f : IsChain(f, storedPosts, Len(storedPosts))
  <2>1. Len(storedPosts) \in 0 .. Len(storedPosts) /\ Len(storedPosts) \in Nat
    BY DEF PostsTyped
  <2>2. \A p \in 1 .. Len(storedPosts) : storedPosts[p].prev \in 0 .. p - 1
    BY LinkedBack
  <2> QED BY <2>1, <2>2, ChainExists
<1>2. IsChain(C!ChainFrom, storedPosts, Len(storedPosts))
  BY <1>1, Zenon DEF IsChain, C!ChainFrom, C!None
<1> QED BY <1>2, Zenon DEF IsChain

\* From a post, the links lead to the posts of its channel up to it.
LEMMA ChainMembers ==
  ASSUME PostsTyped, Linked, NEW p \in 1 .. Len(storedPosts)
  PROVE  C!ChainFrom[p] = {q \in C!PostsOf(storedPosts[p].c) : q <= p}
<1>0. Len(storedPosts) \in Nat
  BY DEF PostsTyped
<1> DEFINE Up(m) == {q \in C!PostsOf(storedPosts[m].c) : q <= m}
           J == {m \in 1 .. Len(storedPosts) : C!ChainFrom[m] # Up(m)}
<1>1. SUFFICES ASSUME J # {} PROVE FALSE
  OBVIOUS
<1>2. PICK j \in J : \A i \in J : j <= i
  <2>1. J \in SUBSET Nat
    BY <1>0
  <2> HIDE DEF J
  <2> QED BY <1>1, <2>1, LeastIndex
<1>3. PICK k : k = storedPosts[j].prev
  OBVIOUS
<1>4. PICK c : c = storedPosts[j].c
  OBVIOUS
<1>5. j \in 1 .. Len(storedPosts) /\ j \in Nat /\ k \in 0 .. j - 1
  BY <1>0, <1>3, LinkedBack
<1>6. C!ChainFrom[j] = {j} \cup C!ChainFrom[k]
  <2>1. j \in 0 .. Len(storedPosts) /\ j # 0
    BY <1>0, <1>5
  <2> QED BY <1>3, <2>1, ChainStep, Zenon
<1>7. IsLast(k, Before(c, j))
  BY <1>3, <1>4, <1>5 DEF Linked
<1>8. Up(j) = {j} \cup Before(c, j)
  BY <1>0, <1>4, <1>5 DEF C!PostsOf, Before
<1>9. C!ChainFrom[k] = Before(c, j)
  <2>1. CASE k = 0
    <3>1. C!ChainFrom[k] = {}
      <4>1. 0 \in 0 .. Len(storedPosts)
        BY <1>0
      <4> QED BY <2>1, <4>1, ChainStep, Zenon
    <3>2. Before(c, j) = {}
      BY <1>5, <1>7, <2>1 DEF IsLast, Before
    <3> QED BY <3>1, <3>2
  <2>2. CASE k # 0
    <3>1. k \in Before(c, j) /\ \A q \in Before(c, j) : q <= k
      BY <1>7, <2>2 DEF IsLast
    <3>2. k \in 1 .. Len(storedPosts) /\ k < j /\ storedPosts[k].c = c
      BY <1>0, <1>5, <2>2, <3>1 DEF Before
    <3>3. C!ChainFrom[k] = Up(k)
      <4>1. k \notin J
        <5> HIDE DEF J
        <5> QED BY <1>0, <1>2, <1>5, <3>2
      <4> QED BY <3>2, <4>1
    <3>4. Up(k) = Before(c, j)
      BY <1>0, <1>5, <3>1, <3>2 DEF C!PostsOf, Before
    <3> QED BY <3>3, <3>4
  <2> QED BY <2>1, <2>2
<1> QED BY <1>6, <1>8, <1>9

\* Some posts have a last one, and it is the only one.
LEMMA LastExists ==
  ASSUME PostsTyped, NEW Q \in SUBSET (1 .. Len(storedPosts))
  PROVE  \E h : IsLast(h, Q)
<1>0. Len(storedPosts) \in Nat
  BY DEF PostsTyped
<1>1. CASE Q = {}
  BY <1>1 DEF IsLast
<1>2. CASE Q # {}
  <2> DEFINE N == {Len(storedPosts) - q : q \in Q}
  <2>0. \A q \in Q : q \in Nat /\ Len(storedPosts) - q \in Nat
    <3>1. \A q \in 1 .. Len(storedPosts) : q \in Nat /\ Len(storedPosts) - q \in Nat
      BY <1>0
    <3> QED BY <3>1
  <2>1. N \in SUBSET Nat /\ N # {}
    BY <1>2, <2>0
  <2>2. PICK m \in N : \A i \in N : m <= i
    <3> HIDE DEF N
    <3> QED BY <2>1, LeastIndex
  <2>3. PICK h \in Q : m = Len(storedPosts) - h
    BY <2>2
  <2>4. ASSUME NEW q \in Q PROVE q <= h
    <3>1. m <= Len(storedPosts) - q
      BY <2>2
    <3> QED BY <1>0, <2>0, <2>3, <3>1
  <2> QED BY <1>2, <2>4 DEF IsLast
<1> QED BY <1>1, <1>2

\* Latest is the last post of a channel, and the only one.
LEMMA LatestIsLast ==
  ASSUME PostsTyped, NEW c
  PROVE  /\ IsLast(C!Latest(c), C!PostsOf(c))
         /\ \A h : IsLast(h, C!PostsOf(c)) => h = C!Latest(c)
<1>0. Len(storedPosts) \in Nat
  BY DEF PostsTyped
<1>1. C!PostsOf(c) \in SUBSET (1 .. Len(storedPosts))
  BY DEF C!PostsOf
<1>2. PICK h : IsLast(h, C!PostsOf(c))
  BY <1>1, LastExists
<1> DEFINE Q == C!PostsOf(c)
<1>3. CASE Q = {}
  BY <1>3 DEF IsLast, C!Latest, C!None
<1>4. CASE Q # {}
  <2>1. h \in Q /\ \A q \in Q : q <= h
    BY <1>2, <1>4 DEF IsLast
  <2>2. C!Latest(c) \in Q /\ \A q \in Q : q <= C!Latest(c)
    <3>1. C!Latest(c) = CHOOSE p \in Q : \A q \in Q : q <= p
      BY <1>4 DEF C!Latest
    <3> HIDE DEF Q
    <3> QED BY <2>1, <3>1
  <2>3. ASSUME NEW l, IsLast(l, Q) PROVE l = C!Latest(c)
    <3>1. l \in Q /\ \A q \in Q : q <= l
      BY <1>4, <2>3 DEF IsLast
    <3> QED BY <1>0, <1>1, <2>2, <3>1
  <2> QED BY <1>4, <2>2, <2>3 DEF IsLast
<1> QED BY <1>3, <1>4

-----------------------------------------------------------------------------
(* Channels: the invariant.                                                *)

ChannelTypes ==
  /\ PostsTyped /\ time \in Nat
  /\ channels \in [Channel -> ChannelState] /\ stored \in [Channel -> ChannelState]
  /\ subscribers \in [Channel -> SUBSET Subscriber]
  /\ \A c \in Channel : IsFiniteSet(subscribers[c])
  /\ posting # C!NoPosting => posting.c \in Channel /\ posting.now \in Nat /\ C!Known(posting.c)

\* A post of the channel is between its two transactions.
Posting(c) == posting # C!NoPosting /\ posting.c = c

\* The head in memory is the latest post, or the one before it while that is
\* being written.
HeadSound(c) ==
  IF Posting(c)
  THEN /\ posting.post = Len(storedPosts) /\ posting.post \in C!PostsOf(c)
       /\ storedPosts[posting.post].prev = channels[c].head
  ELSE IsLast(channels[c].head, C!PostsOf(c))

\* A channel in memory: a private one has no subscribers and is signed.
CacheSound(c) ==
  /\ ~C!Known(c) => subscribers[c] = {}
  /\ C!Known(c) => /\ c \in used /\ HeadSound(c)
                   /\ channels[c].count >= Cardinality(subscribers[c])
  /\ channels[c].kind = "private" =>
       subscribers[c] = {} /\ channels[c].count = 0 /\ C!Verify(channels[c])

\* A stored channel points to its latest post or to the one before it.
Lags(c) ==
  \/ IsLast(stored[c].head, C!PostsOf(c))
  \/ \E p \in C!PostsOf(c) : IsLast(p, C!PostsOf(c)) /\ stored[c].head = storedPosts[p].prev
StoredSound(c) ==
  /\ stored[c] # C!NoState => Lags(c) /\ c \in used
  /\ stored[c].kind = "private" /\ IsLast(stored[c].head, C!PostsOf(c)) => C!Verify(stored[c])

ChannelInv ==
  /\ ChannelTypes /\ Linked
  /\ \A c \in Channel : CacheSound(c) /\ StoredSound(c) /\ (c \notin used => C!PostsOf(c) = {})

\* The state of no channel.
LEMMA NoStateTyped ==
  /\ C!NoState \in ChannelState /\ C!NoState.kind = "none" /\ C!NoState.head = 0
  /\ C!NoState.count = 0
BY DEF C!NoState, ChannelState, C!None

\* Cardinality is the same seen through the instance.
LEMMA ChannelCardinality == ASSUME NEW X PROVE C!Cardinality(X) = Cardinality(X)
BY DEF C!Cardinality, Cardinality

\* The invariant holds at first.
LEMMA ChannelInit == C!Init => ChannelInv
<1> SUFFICES ASSUME C!Init PROVE ChannelInv
  OBVIOUS
<1>1. storedPosts = <<>> /\ used = {} /\ posting = C!NoPosting /\ time = 1
  BY DEF C!Init
<1>2. PostsTyped /\ Linked /\ \A c : C!PostsOf(c) = {}
  BY <1>1 DEF PostsTyped, Linked, C!PostsOf
<1>3. \A c \in Channel : channels[c] = C!NoState /\ stored[c] = C!NoState /\ subscribers[c] = {}
  BY DEF C!Init
<1>4. ChannelTypes
  BY <1>1, <1>2, <1>3, NoStateTyped, FS_EmptySet DEF ChannelTypes, C!Init
<1>5. \A c \in Channel : CacheSound(c) /\ StoredSound(c)
  BY <1>3, NoStateTyped DEF CacheSound, StoredSound, C!Known
<1> QED BY <1>2, <1>4, <1>5 DEF ChannelInv

\* The invariant gives what the runs check.
LEMMA ChannelShown == ChannelInv => ChannelsSound
<1> SUFFICES ASSUME ChannelInv PROVE ChannelsSound
  OBVIOUS
<1>0. PostsTyped /\ Linked /\ Len(storedPosts) \in Nat
  BY DEF ChannelInv, ChannelTypes, PostsTyped
\* The chain from the last post of a channel is all of its posts.
<1>1. ASSUME NEW c \in Channel, NEW h, IsLast(h, C!PostsOf(c))
      PROVE  C!ChainFrom[h] = C!PostsOf(c)
  <2>1. CASE C!PostsOf(c) = {}
    <3>1. 0 \in 0 .. Len(storedPosts)
      BY <1>0
    <3> QED BY <1>0, <1>1, <2>1, <3>1, ChainStep, Zenon DEF IsLast
  <2>2. CASE C!PostsOf(c) # {}
    <3>1. h \in C!PostsOf(c) /\ \A q \in C!PostsOf(c) : q <= h
      BY <1>1, <2>2 DEF IsLast
    <3>2. h \in 1 .. Len(storedPosts) /\ storedPosts[h].c = c
      BY <3>1 DEF C!PostsOf
    <3>3. C!ChainFrom[h] = {q \in C!PostsOf(c) : q <= h}
      BY <1>0, <3>2, ChainMembers
    <3> QED BY <3>1, <3>3
  <2> QED BY <2>1, <2>2
<1>2. C!PostChainWhole
  <2>1. ASSUME NEW c \in Channel, C!Unlocked, C!Known(c)
        PROVE  C!ChainFrom[channels[c].head] = C!PostsOf(c)
    <3>1. IsLast(channels[c].head, C!PostsOf(c))
      BY <2>1 DEF ChannelInv, CacheSound, HeadSound, Posting, C!Unlocked
    <3> QED BY <1>1, <3>1
  <2> QED BY <2>1 DEF C!PostChainWhole
<1>3. C!StoredChainLag
  <2>1. ASSUME NEW c \in Channel, stored[c] # C!NoState
        PROVE  C!PostsOf(c) \ C!ChainFrom[stored[c].head] \in {{}, {C!Latest(c)}}
    <3>1. CASE IsLast(stored[c].head, C!PostsOf(c))
      <4>1. C!ChainFrom[stored[c].head] = C!PostsOf(c)
        BY <1>1, <3>1
      <4> QED BY <4>1
    <3>2. ASSUME NEW p \in C!PostsOf(c), IsLast(p, C!PostsOf(c)),
                 stored[c].head = storedPosts[p].prev
          PROVE  C!PostsOf(c) \ C!ChainFrom[stored[c].head] \in {{}, {C!Latest(c)}}
      <4>1. p = C!Latest(c)
        BY <1>0, <3>2, LatestIsLast
      <4>2. p \in 0 .. Len(storedPosts) /\ p # 0
        BY <1>0 DEF C!PostsOf
      <4>3. C!ChainFrom[p] = {p} \cup C!ChainFrom[stored[c].head]
        BY <1>0, <3>2, <4>2, ChainStep, Zenon
      <4>4. C!ChainFrom[p] = C!PostsOf(c)
        BY <1>1, <3>2
      <4> QED BY <4>1, <4>3, <4>4
    <3>3. Lags(c)
      BY <2>1 DEF ChannelInv, StoredSound
    <3> QED BY <3>1, <3>2, <3>3 DEF Lags
  <2> QED BY <2>1 DEF C!StoredChainLag
<1>4. C!StoredPrivateVerifies
  <2>1. ASSUME NEW c \in Channel, stored[c].kind = "private", stored[c].head = C!Latest(c)
        PROVE  C!Verify(stored[c])
    <3>1. IsLast(stored[c].head, C!PostsOf(c))
      BY <1>0, <2>1, LatestIsLast
    <3> QED BY <2>1, <3>1 DEF ChannelInv, StoredSound
  <2> QED BY <2>1 DEF C!StoredPrivateVerifies
<1>5. C!CountCoversSubscribers
  BY ChannelCardinality DEF ChannelInv, CacheSound, C!CountCoversSubscribers
<1> QED BY <1>2, <1>3, <1>4, <1>5 DEF ChannelsSound, C!ChannelsSound

\* A channel a step does not touch.
LEMMA OtherChannel ==
  ASSUME NEW c \in Channel, CacheSound(c), StoredSound(c),
         channels'[c] = channels[c], stored'[c] = stored[c], subscribers'[c] = subscribers[c],
         used \subseteq used', C!PostsOf(c)' = C!PostsOf(c),
         \A p \in C!PostsOf(c) : storedPosts'[p] = storedPosts[p],
         \/ UNCHANGED <<posting, storedPosts>>
         \/ ~Posting(c) /\ ~Posting(c)'
  PROVE  CacheSound(c)' /\ StoredSound(c)'
<1>1. C!Known(c)' = C!Known(c)
  BY DEF C!Known
<1>2. HeadSound(c) => HeadSound(c)'
  BY DEF HeadSound, Posting
<1>3. Lags(c) => Lags(c)'
  BY DEF Lags
<1>4. \A h : IsLast(h, C!PostsOf(c))' = IsLast(h, C!PostsOf(c))
  BY DEF IsLast
<1>5. CacheSound(c)'
  BY <1>1, <1>2 DEF CacheSound, C!Verify
<1>6. StoredSound(c)'
  BY <1>3 DEF StoredSound, C!Verify
<1> QED BY <1>5, <1>6

\* Steps that write no post.
LEMMA NoPostWritten ==
  ASSUME ChannelInv, UNCHANGED storedPosts, used \subseteq used', ChannelTypes',
         \A c \in Channel : CacheSound(c)' /\ StoredSound(c)'
  PROVE  ChannelInv'
<1>1. \A c : C!PostsOf(c)' = C!PostsOf(c)
  BY DEF C!PostsOf
<1>2. Linked'
  BY DEF ChannelInv, Linked, Before
<1> QED BY <1>1, <1>2 DEF ChannelInv

\* What is signed verifies.
LEMMA Signed ==
  ASSUME NEW s \in ChannelState
  PROVE  /\ C!Sign(s) \in ChannelState /\ C!Verify(C!Sign(s))
         /\ C!Sign(s).kind = s.kind /\ C!Sign(s).head = s.head /\ C!Sign(s).count = s.count
BY DEF C!Sign, C!Verify, C!Serialize, ChannelState

\* A new channel has no posts, for its identifier is new.
LEMMA CreateChannelKeeps ==
  ASSUME ChannelInv, NEW c \in Channel, NEW kind \in {"private", "public"},
         C!CreateChannel(c, kind)
  PROVE  ChannelInv'
<1> DEFINE s == [C!NoState EXCEPT !.kind = kind, !.updated = time]
<1>1. s \in ChannelState /\ s.kind = kind /\ s.head = 0 /\ s.count = 0
  BY DEF ChannelInv, ChannelTypes, C!NoState, ChannelState, C!None
<1>2. PICK state : state = C!Sign(s)
  OBVIOUS
<1> HIDE DEF s
<1>3. /\ state \in ChannelState /\ state.kind = kind /\ state.head = 0 /\ state.count = 0
      /\ C!Verify(state)
  BY <1>1, <1>2, Signed
<1>4. /\ C!Unlocked /\ c \notin used /\ used' = used \cup {c}
      /\ \/ stored' = [stored EXCEPT ![c] = state] /\ channels' = [channels EXCEPT ![c] = state]
         \/ UNCHANGED <<stored, channels>>
      /\ UNCHANGED <<subscribers, storedPosts, posting, time>>
  BY <1>2 DEF C!CreateChannel, s
<1>5. subscribers[c] = {} /\ C!PostsOf(c) = {} /\ ~C!Known(c)
  BY <1>4 DEF ChannelInv, CacheSound
<1>6. \A d : C!PostsOf(d)' = C!PostsOf(d)
  BY <1>4 DEF C!PostsOf
<1>7. posting = C!NoPosting /\ posting' = C!NoPosting
  BY <1>4 DEF C!Unlocked
<1>8. ChannelTypes'
  BY <1>3, <1>4, <1>7 DEF ChannelInv, ChannelTypes, PostsTyped
<1>9. ASSUME NEW d \in Channel PROVE CacheSound(d)' /\ StoredSound(d)'
  <2>1. CASE channels'[d] = channels[d] /\ stored'[d] = stored[d]
    BY <1>4, <1>6, <2>1, OtherChannel DEF ChannelInv
  <2>2. CASE d = c /\ channels'[c] = state /\ stored'[c] = state
    <3>1. IsLast(0, C!PostsOf(c)')
      BY <1>5, <1>6 DEF IsLast
    <3>2. CacheSound(c)'
      BY <1>3, <1>4, <1>5, <1>7, <2>2, <3>1, FS_EmptySet DEF CacheSound, HeadSound, Posting, C!Verify, C!Known
    <3>3. StoredSound(c)'
      BY <1>3, <1>4, <2>2, <3>1 DEF StoredSound, Lags, C!Verify
    <3> QED BY <2>2, <3>2, <3>3
  <2> QED BY <1>4, <2>1, <2>2 DEF ChannelInv, ChannelTypes
<1> QED BY <1>4, <1>8, <1>9, NoPostWritten

\* A deleted channel is forgotten in memory and in storage, its posts are not.
LEMMA DeleteChannelKeeps ==
  ASSUME ChannelInv, NEW c \in Channel, C!DeleteChannel(c)
  PROVE  ChannelInv'
<1>1. /\ stored' = [stored EXCEPT ![c] = C!NoState]
      /\ channels' = [channels EXCEPT ![c] = C!NoState]
      /\ subscribers' = [subscribers EXCEPT ![c] = {}]
      /\ posting = C!NoPosting
      /\ UNCHANGED <<storedPosts, posting, used, time>>
  BY DEF C!DeleteChannel, C!Unlocked
<1>2. \A d : C!PostsOf(d)' = C!PostsOf(d)
  BY <1>1 DEF C!PostsOf
<1>3. ChannelTypes'
  BY <1>1, NoStateTyped, FS_EmptySet DEF ChannelInv, ChannelTypes, PostsTyped
<1>4. ASSUME NEW d \in Channel PROVE CacheSound(d)' /\ StoredSound(d)'
  <2>1. CASE d = c
    <3>1. channels'[d] = C!NoState /\ stored'[d] = C!NoState /\ subscribers'[d] = {}
      BY <1>1, <2>1 DEF ChannelInv, ChannelTypes
    <3> QED BY <3>1, NoStateTyped DEF CacheSound, StoredSound, C!Known
  <2>2. CASE d # c
    BY <1>1, <1>2, <2>2, OtherChannel DEF ChannelInv, ChannelTypes
  <2> QED BY <2>1, <2>2
<1> QED BY <1>1, <1>3, <1>4, NoPostWritten

\* A restart forgets what is in memory.
LEMMA RestartKeeps ==
  ASSUME ChannelInv, C!Restart
  PROVE  ChannelInv'
<1>1. /\ channels' = [c \in Channel |-> C!NoState] /\ subscribers' = [c \in Channel |-> {}]
      /\ posting' = C!NoPosting /\ UNCHANGED <<stored, storedPosts, used, time>>
  BY DEF C!Restart
<1>2. ChannelTypes'
  BY <1>1, NoStateTyped, FS_EmptySet DEF ChannelInv, ChannelTypes, PostsTyped
<1>3. ASSUME NEW c \in Channel PROVE CacheSound(c)' /\ StoredSound(c)'
  <2>1. channels'[c] = C!NoState /\ subscribers'[c] = {}
    BY <1>1
  <2>2. CacheSound(c)'
    BY <2>1, NoStateTyped DEF CacheSound, C!Known
  <2>3. StoredSound(c)'
    BY <1>1, ZenonT(40) DEF ChannelInv, StoredSound, Lags, C!PostsOf, C!Verify
  <2> QED BY <2>2, <2>3
<1> QED BY <1>1, <1>2, <1>3, NoPostWritten

\* A recount: only a public channel has subscribers to count.
LEMMA RecountKeeps ==
  ASSUME ChannelInv, NEW c \in Channel, NEW ss \in SUBSET Subscriber, IsFiniteSet(ss),
         channels[c].kind = "private" => ss = {}, C!Recount(c, ss)
  PROVE  ChannelInv'
<1>1. PICK state : state = [channels[c] EXCEPT !.count = Cardinality(ss)]
  OBVIOUS
<1>2. /\ C!Unlocked /\ C!Known(c)
      /\ subscribers' = [subscribers EXCEPT ![c] = ss]
      /\ channels' = [channels EXCEPT ![c] = state]
      /\ stored' = [stored EXCEPT ![c] = state] \/ UNCHANGED stored
      /\ UNCHANGED <<storedPosts, posting, used, time>>
  BY <1>1, ChannelCardinality DEF C!Recount, C!storeChannel
<1>3. Cardinality(ss) \in Nat /\ (ss = {} => Cardinality(ss) = 0)
  BY FS_CardinalityType, FS_EmptySet
<1>4. channels[c] \in ChannelState
  BY DEF ChannelInv, ChannelTypes
<1>5. /\ state \in ChannelState /\ state.kind = channels[c].kind /\ state.head = channels[c].head
      /\ state.count = Cardinality(ss) /\ state.updated = channels[c].updated
      /\ state.sig = channels[c].sig
  BY <1>1, <1>3, <1>4 DEF ChannelState
<1>6. posting = C!NoPosting /\ posting' = C!NoPosting
  BY <1>2 DEF C!Unlocked
<1>7. \A d : C!PostsOf(d)' = C!PostsOf(d)
  BY <1>2 DEF C!PostsOf
<1>8. ChannelTypes'
  BY <1>2, <1>5, <1>6 DEF ChannelInv, ChannelTypes, PostsTyped
<1>9. /\ IsLast(state.head, C!PostsOf(c)) /\ c \in used
      /\ state.kind = "private" => state.count = 0 /\ C!Verify(state)
  <2>1. IsLast(channels[c].head, C!PostsOf(c)) /\ c \in used
    BY <1>2, <1>6 DEF ChannelInv, CacheSound, HeadSound, Posting
  <2>2. channels[c].kind = "private" => channels[c].count = 0 /\ C!Verify(channels[c])
    BY DEF ChannelInv, CacheSound
  <2> QED BY <1>3, <1>5, <2>1, <2>2 DEF C!Verify, C!Serialize
<1>10. ASSUME NEW d \in Channel PROVE CacheSound(d)' /\ StoredSound(d)'
  <2>1. CASE d = c
    <3>1. channels'[c] = state /\ subscribers'[c] = ss /\ stored'[c] \in {state, stored[c]}
      BY <1>2 DEF ChannelInv, ChannelTypes
    <3>2. IsLast(state.head, C!PostsOf(c)')
      BY <1>7, <1>9
    <3>3. state # C!NoState \/ ss = {}
      BY <1>3, <1>5, FS_EmptySet, NoStateTyped
    <3>4. CacheSound(c)'
      BY <1>2, <1>3, <1>5, <1>6, <1>9, <3>1, <3>2, <3>3 DEF CacheSound, HeadSound, Posting, C!Verify, C!Known
    <3>5. StoredSound(c)'
      <4>1. CASE stored'[c] = state
        BY <1>2, <1>9, <3>2, <4>1 DEF StoredSound, Lags, C!Verify
      <4>2. CASE stored'[c] = stored[c]
        BY <1>2, <1>7, <4>2 DEF ChannelInv, StoredSound, Lags, C!Verify
      <4> QED BY <3>1, <4>1, <4>2
    <3> QED BY <2>1, <3>4, <3>5
  <2>2. CASE d # c
    BY <1>2, <1>7, <2>2, OtherChannel DEF ChannelInv, ChannelTypes
  <2> QED BY <2>1, <2>2
<1> QED BY <1>2, <1>8, <1>10, NoPostWritten

\* A post of a channel is written: it leads to the head, the last one before it,
\* which the transaction makes the stored head.
LEMMA CreatePostKeeps ==
  ASSUME ChannelInv, NEW c \in Channel, C!CreatePost(c)
  PROVE  ChannelInv'
<1>a. PICK n \in Nat : n = Len(storedPosts)
  BY DEF ChannelInv, ChannelTypes, PostsTyped
<1>0. n = Len(storedPosts) /\ PostsTyped /\ Linked /\ channels[c] \in ChannelState /\ stored[c] \in ChannelState
  BY <1>a DEF ChannelInv, ChannelTypes, PostsTyped
<1>1. PICK post \in Post : post = [c |-> c, prev |-> channels[c].head, time |-> time]
  BY DEF ChannelInv, ChannelTypes, ChannelState, Post
<1>2. post.c = c /\ post.prev = channels[c].head /\ post.time = time
  BY <1>1
<1>3. /\ C!Unlocked /\ C!Known(c) /\ storedPosts' = Append(storedPosts, post)
      /\ stored' = IF stored[c] = C!NoState THEN stored
                   ELSE [stored EXCEPT ![c].head = post.prev, ![c].updated = post.time]
      /\ posting' = [c |-> c, post |-> n + 1, now |-> time]
      /\ UNCHANGED <<channels, subscribers, used, time>>
  BY <1>a, <1>1 DEF C!CreatePost, C!SaveChannelPost
<1>4. PICK state : state = [stored[c] EXCEPT !.head = post.prev, !.updated = post.time]
  OBVIOUS
<1>5. /\ state \in ChannelState /\ state.head = channels[c].head
      /\ stored' = IF stored[c] = C!NoState THEN stored ELSE [stored EXCEPT ![c] = state]
  <2>1. state \in ChannelState /\ state.head = channels[c].head
    BY <1>0, <1>2, <1>4 DEF ChannelInv, ChannelTypes, ChannelState
  <2>2. stored' = IF stored[c] = C!NoState THEN stored ELSE [stored EXCEPT ![c] = state]
    BY <1>3, <1>4, Zenon
  <2> QED BY <2>1, <2>2
<1>6. posting = C!NoPosting /\ posting' # C!NoPosting
  <2>1. posting = C!NoPosting
    BY <1>3 DEF C!Unlocked
  <2>2. C!NoPosting.post = 0 /\ posting'.post = n + 1
    BY <1>3 DEF C!NoPosting, C!None
  <2> QED BY <1>0, <2>1, <2>2
<1>7. /\ storedPosts' \in Seq(Post) /\ Len(storedPosts') = n + 1
      /\ \A p \in 1 .. n : storedPosts'[p] = storedPosts[p]
      /\ storedPosts'[n + 1] = post
  BY <1>0, <1>3 DEF PostsTyped
<1>8. \A d : C!PostsOf(d)' = C!PostsOf(d) \cup (IF d = c THEN {n + 1} ELSE {})
  BY <1>0, <1>2, <1>7 DEF C!PostsOf
<1>9. \A d : C!PostsOf(d) \subseteq 1 .. n
  BY <1>0 DEF C!PostsOf
<1>10. IsLast(channels[c].head, C!PostsOf(c)) /\ c \in used
  BY <1>3, <1>6 DEF ChannelInv, CacheSound, HeadSound, Posting
<1>11. Linked'
  <2>1. ASSUME NEW p \in 1 .. n, NEW d
        PROVE  Before(d, p)' = Before(d, p)
    BY <1>7 DEF Before
  <2>2. ASSUME NEW p \in 1 .. n
        PROVE  IsLast(storedPosts[p].prev, Before(storedPosts[p].c, p))'
    <3>1. PICK d, k : d = storedPosts[p].c /\ k = storedPosts[p].prev
      OBVIOUS
    <3>2. storedPosts'[p].c = d /\ storedPosts'[p].prev = k
      BY <1>7, <3>1
    <3>3. IsLast(k, Before(d, p))
      BY <1>0, <3>1 DEF Linked
    <3>4. IsLast(k, Before(d, p)')
      BY <2>1, <3>3
    <3> QED BY <3>2, <3>4 DEF IsLast, Before
  <2>3. Before(c, n + 1)' = C!PostsOf(c)
    BY <1>0, <1>7 DEF Before, C!PostsOf
  <2>4. storedPosts'[n + 1].c = c /\ storedPosts'[n + 1].prev = channels[c].head
    BY <1>2, <1>7
  <2>5. IsLast(channels[c].head, Before(c, n + 1)')
    BY <1>10, <2>3
  <2>6. IsLast(storedPosts[n + 1].prev, Before(storedPosts[n + 1].c, n + 1))'
    BY <2>4, <2>5 DEF IsLast, Before
  <2>7. \A p \in 1 .. n + 1 : p \in 1 .. n \/ p = n + 1
    OBVIOUS
  <2> QED BY <1>7, <2>2, <2>6, <2>7 DEF Linked
<1>12. ChannelTypes'
  <2>1. stored' \in [Channel -> ChannelState]
    BY <1>5 DEF ChannelInv, ChannelTypes
  <2>2. posting'.c = c /\ posting'.now = time /\ C!Known(c)'
    BY <1>3 DEF C!Known
  <2> QED BY <1>3, <1>7, <2>1, <2>2 DEF ChannelInv, ChannelTypes, PostsTyped
<1>13. ASSUME NEW d \in Channel PROVE CacheSound(d)' /\ StoredSound(d)'
  <2>1. CASE d = c
    <3>1. n + 1 \in C!PostsOf(c)' /\ IsLast(n + 1, C!PostsOf(c)')
      <4>1. n + 1 \in C!PostsOf(c)'
        BY <1>8
      <4>2. \A q \in C!PostsOf(c)' : q <= n + 1
        BY <1>0, <1>8, <1>9
      <4> QED BY <4>1, <4>2 DEF IsLast
    <3>2. HeadSound(c)'
      BY <1>2, <1>3, <1>6, <1>7, <3>1 DEF HeadSound, Posting
    <3>3. CacheSound(c)'
      BY <1>3, <3>2 DEF ChannelInv, CacheSound, C!Known, C!Verify
    <3>4. ~IsLast(channels[c].head, C!PostsOf(c)')
      <4>1. channels[c].head \in 0 .. n
        BY <1>0, <1>9, <1>10 DEF IsLast
      <4> QED BY <1>0, <3>1, <4>1 DEF IsLast
    <3>5. StoredSound(c)'
      <4>1. CASE stored[c] = C!NoState
        BY <1>5, <4>1, NoStateTyped DEF StoredSound
      <4>2. CASE stored[c] # C!NoState
        <5>1. stored'[c] = state
          BY <1>5, <4>2 DEF ChannelInv, ChannelTypes
        <5>2. stored'[c].head = storedPosts'[n + 1].prev
          BY <1>2, <1>5, <1>7, <5>1
        <5>3. Lags(c)'
          BY <3>1, <5>2 DEF Lags
        <5>4. ~IsLast(stored'[c].head, C!PostsOf(c)')
          BY <1>5, <3>4, <5>1
        <5> QED BY <1>3, <1>10, <5>3, <5>4 DEF StoredSound
      <4> QED BY <4>1, <4>2
    <3> QED BY <2>1, <3>3, <3>5
  <2>2. CASE d # c
    <3>1. C!PostsOf(d)' = C!PostsOf(d) /\ \A p \in C!PostsOf(d) : storedPosts'[p] = storedPosts[p]
      BY <1>7, <1>8, <1>9, <2>2
    <3>2. stored'[d] = stored[d]
      BY <1>5, <2>2 DEF ChannelInv, ChannelTypes
    <3>3. ~Posting(d) /\ ~Posting(d)'
      BY <1>3, <1>6, <2>2 DEF Posting
    <3> QED BY <1>3, <3>1, <3>2, <3>3, OtherChannel DEF ChannelInv
  <2> QED BY <2>1, <2>2
<1>14. ASSUME NEW d \in Channel, d \notin used' PROVE C!PostsOf(d)' = {}
  BY <1>3, <1>8, <1>10, <1>14 DEF ChannelInv
<1> QED BY <1>11, <1>12, <1>13, <1>14 DEF ChannelInv

\* The post becomes the head, signed, whether or not the channel is stored.
LEMMA PostChannelKeeps ==
  ASSUME ChannelInv, C!PostChannel
  PROVE  ChannelInv'
<1>1. PICK c \in Channel : c = posting.c
  BY DEF ChannelInv, ChannelTypes, C!PostChannel
<1>2. Posting(c) /\ C!Known(c) /\ posting.now \in Nat /\ channels[c] \in ChannelState
  BY <1>1 DEF ChannelInv, ChannelTypes, C!PostChannel, Posting
<1>3. /\ posting.post = Len(storedPosts) /\ posting.post \in C!PostsOf(c) /\ c \in used
      /\ posting.post \in Nat /\ channels[c].count >= Cardinality(subscribers[c])
  <2>1. HeadSound(c) /\ c \in used /\ channels[c].count >= Cardinality(subscribers[c])
    BY <1>2 DEF ChannelInv, CacheSound
  <2>2. Len(storedPosts) \in Nat
    BY DEF ChannelInv, ChannelTypes, PostsTyped
  <2> QED BY <1>2, <2>1, <2>2 DEF HeadSound
<1> DEFINE s == [channels[c] EXCEPT !.head = posting.post, !.updated = posting.now]
<1>4. s \in ChannelState /\ s.kind = channels[c].kind /\ s.head = posting.post /\ s.count = channels[c].count
  BY <1>2, <1>3 DEF ChannelState
<1>5. PICK state : state = C!Posted(channels[c], posting.post, posting.now)
  OBVIOUS
<1>6. state = C!Sign(s)
  BY <1>5 DEF C!Posted
<1> HIDE DEF s
<1>7. /\ state \in ChannelState /\ C!Verify(state) /\ state.kind = channels[c].kind
      /\ state.head = posting.post /\ state.count = channels[c].count
  BY <1>4, <1>6, Signed
<1>8. PICK cached : cached = IF state.kind = "public" THEN [state EXCEPT !.count = @ + 1] ELSE state
  OBVIOUS
<1>9. /\ cached \in ChannelState /\ cached.kind = state.kind /\ cached.head = state.head
      /\ cached.count >= state.count /\ (state.kind # "public" => cached = state)
  BY <1>7, <1>8 DEF ChannelState
<1>10. PICK put : put \in {state, cached} /\ channels' = [channels EXCEPT ![c] = put]
  BY <1>1, <1>5, <1>8, Zenon DEF C!PostChannel
<1>11. /\ posting' = C!NoPosting /\ UNCHANGED <<subscribers, storedPosts, used, time>>
       /\ stored' = [stored EXCEPT ![c] = state] \/ UNCHANGED stored
  BY <1>1, <1>5, Zenon DEF C!PostChannel
<1>12. /\ put \in ChannelState /\ put.kind = channels[c].kind /\ put.head = posting.post
       /\ put.count >= channels[c].count
       /\ put.kind = "private" => C!Verify(put) /\ put.count = channels[c].count
  BY <1>7, <1>9, <1>10 DEF ChannelState
<1>13. \A d : C!PostsOf(d)' = C!PostsOf(d)
  BY <1>11 DEF C!PostsOf
<1>14. IsLast(posting.post, C!PostsOf(c)')
  <2>1. \A q \in C!PostsOf(c) : q <= posting.post
    BY <1>3 DEF C!PostsOf
  <2> QED BY <1>3, <1>13, <2>1 DEF IsLast
<1>15. ChannelTypes'
  BY <1>7, <1>10, <1>11, <1>12 DEF ChannelInv, ChannelTypes, PostsTyped
<1>16. ASSUME NEW d \in Channel PROVE CacheSound(d)' /\ StoredSound(d)'
  <2>1. CASE d = c
    <3>1. channels'[c] = put /\ stored'[c] \in {state, stored[c]} /\ subscribers'[c] = subscribers[c]
      BY <1>10, <1>11 DEF ChannelInv, ChannelTypes
    <3>2. HeadSound(c)'
      BY <1>11, <1>12, <1>14, <3>1 DEF HeadSound, Posting
    <3>3. put.count >= Cardinality(subscribers[c])
      <4>1. Cardinality(subscribers[c]) \in Nat
        BY FS_CardinalityType DEF ChannelInv, ChannelTypes
      <4> QED BY <1>2, <1>3, <1>12, <4>1, SMTT(40) DEF ChannelState
    <3>4. put # C!NoState
      <4>1. put.head # 0
        BY <1>3, <1>12 DEF C!PostsOf
      <4> QED BY <4>1, NoStateTyped
    <3>5. CacheSound(c)'
      BY <1>3, <1>11, <1>12, <3>1, <3>2, <3>3, <3>4 DEF ChannelInv, CacheSound, C!Known, C!Verify
    <3>6. StoredSound(c)'
      <4>1. CASE stored'[c] = state
        BY <1>3, <1>7, <1>11, <1>14, <4>1 DEF StoredSound, Lags, C!Verify
      <4>2. CASE stored'[c] = stored[c]
        BY <1>11, <1>13, <4>2 DEF ChannelInv, StoredSound, Lags, C!Verify
      <4> QED BY <3>1, <4>1, <4>2
    <3> QED BY <2>1, <3>5, <3>6
  <2>2. CASE d # c
    <3>1. channels'[d] = channels[d] /\ stored'[d] = stored[d]
      BY <1>10, <1>11, <2>2 DEF ChannelInv, ChannelTypes
    <3>2. ~Posting(d) /\ ~Posting(d)'
      BY <1>1, <1>11, <2>2 DEF Posting
    <3> QED BY <1>11, <1>13, <3>1, <3>2, OtherChannel DEF ChannelInv
  <2> QED BY <2>1, <2>2
<1> QED BY <1>11, <1>15, <1>16, NoPostWritten

\* The invariant is inductive.
LEMMA ChannelKeeps == ChannelInv /\ [C!Next]_(C!vars) => ChannelInv'
<1> SUFFICES ASSUME ChannelInv, [C!Next]_(C!vars) PROVE ChannelInv'
  OBVIOUS
<1>1. ASSUME UNCHANGED <<channels, subscribers, stored, storedPosts, posting, used>>, time' \in Nat
      PROVE  ChannelInv'
  <2>1. \A d : C!PostsOf(d)' = C!PostsOf(d)
    BY <1>1 DEF C!PostsOf
  <2>2. ChannelTypes'
    BY <1>1 DEF ChannelInv, ChannelTypes, PostsTyped, C!Known
  <2>3. \A d \in Channel : CacheSound(d)' /\ StoredSound(d)'
    BY <1>1, <2>1, OtherChannel DEF ChannelInv
  <2> QED BY <1>1, <2>2, <2>3, NoPostWritten
<1>2. ASSUME NEW c \in Channel, NEW x \in Subscriber, C!Subscribe(c, x) PROVE ChannelInv'
  <2>1. subscribers[c] \cup {x} \in SUBSET Subscriber /\ IsFiniteSet(subscribers[c] \cup {x})
    BY FS_AddElement DEF ChannelInv, ChannelTypes
  <2> QED BY <1>2, <2>1, RecountKeeps DEF C!Subscribe
<1>3. ASSUME NEW c \in Channel, NEW x \in Subscriber, C!Unsubscribe(c, x) PROVE ChannelInv'
  <2>1. subscribers[c] \ {x} \in SUBSET Subscriber /\ IsFiniteSet(subscribers[c] \ {x})
    BY FS_RemoveElement DEF ChannelInv, ChannelTypes
  <2>2. channels[c].kind = "private" => subscribers[c] \ {x} = {}
    BY DEF ChannelInv, CacheSound
  <2> QED BY <1>3, <2>1, <2>2, RecountKeeps DEF C!Unsubscribe
<1>4. CASE C!Tick
  BY <1>1, <1>4 DEF C!Tick, ChannelInv, ChannelTypes
<1>5. CASE UNCHANGED C!vars
  BY <1>1, <1>5 DEF C!vars, ChannelInv, ChannelTypes
<1> QED BY <1>2, <1>3, <1>4, <1>5, PostChannelKeeps, RestartKeeps, CreateChannelKeeps,
           CreatePostKeeps, DeleteChannelKeeps DEF C!Next

\* Whatever fails between the two transactions of a post, and wherever the
\* process dies, a channel in memory leads to all of its posts, a stored one to
\* all but at most the last, a stored private channel that points to its latest
\* post verifies, and no subscriber goes uncounted (ChannelService.CreatePost,
\* SaveChannelPost, storeChannel, Subscribe, Unsubscribe).
THEOREM ChannelsKeep == C!Spec => []ChannelsSound
<1>1. C!Init => ChannelInv
  BY ChannelInit
<1>2. ChannelInv /\ [C!Next]_(C!vars) => ChannelInv'
  BY ChannelKeeps
<1>3. ChannelInv => ChannelsSound
  BY ChannelShown
<1> QED BY <1>1, <1>2, <1>3, PTL DEF C!Spec

-----------------------------------------------------------------------------
(* Device synchronisation: the order of broadcasts, and history requests.  *)

Cipher == {S!Encrypt(S!DeviceGroupKey, S!Nonce, S!Bytes(n, "payload")) : n \in PayloadSizes}
Kinds == {"change", "request", "batch"}
Underway ==
  [pc : {"update", "get"}, dev : Device, type : Kinds, contact : Contact \cup {0},
   last : BOOLEAN, payload : Cipher, after : Nat]
SyncMessage ==
  [dev : Device, type : Kinds, contact : Contact \cup {0}, last : BOOLEAN, payload : Cipher,
   after : Nat, clock : [Device -> Nat]]

SyncTypes ==
  /\ vectorClock \in [Device -> [Device -> Nat]]
  /\ syncThread \in [Device -> [Thread -> {S!Idle} \cup Underway]]
  /\ sent \in Seq(SyncMessage)

\* The count of its device in a message, and the messages of a device among the
\* first n.
Count(j) == sent[j].clock[sent[j].dev]
Finished(d, n) == {j \in 1 .. Len(sent) : sent[j].dev = d /\ j <= n}

\* No message is ahead of the clock of its device, and a broadcast that raised
\* the clock is ahead of the messages finished before it began.
SyncInv ==
  /\ SyncTypes
  /\ \A j \in 1 .. Len(sent) : Count(j) <= vectorClock[sent[j].dev][sent[j].dev]
  /\ \A d \in Device : \A t \in Thread : syncThread[d][t] # S!Idle =>
       /\ syncThread[d][t].after <= Len(sent)
       /\ syncThread[d][t].pc = "get" =>
            \A j \in Finished(d, syncThread[d][t].after) : Count(j) < vectorClock[d][d]
  /\ \A i \in 1 .. Len(sent) :
       /\ sent[i].after <= Len(sent)
       /\ \A j \in Finished(sent[i].dev, sent[i].after) : Count(j) < Count(i)

\* The invariant gives the order of broadcasts.
LEMMA SyncShown == SyncInv => S!ClockOrdersBroadcasts
<1> SUFFICES ASSUME SyncInv PROVE S!ClockOrdersBroadcasts
  OBVIOUS
<1>1. DOMAIN sent = 1 .. Len(sent)
  BY DEF SyncInv, SyncTypes
<1> QED BY <1>1 DEF SyncInv, Finished, Count, S!ClockOrdersBroadcasts

\* The invariant holds at first.
LEMMA SyncInit == S!Init => SyncInv
<1> SUFFICES ASSUME S!Init PROVE SyncInv
  OBVIOUS
<1>1. sent = <<>> /\ \A d \in Device : \A t \in Thread : syncThread[d][t] = S!Idle
  BY DEF S!Init
<1>2. SyncTypes
  BY DEF S!Init, SyncTypes
<1> QED BY <1>1, <1>2 DEF SyncInv

\* Steps that finish no message: clocks do not go back, and a goroutine that
\* comes to read the clock has raised it.
LEMMA SyncQuiet ==
  ASSUME SyncInv, UNCHANGED sent, SyncTypes',
         \A d \in Device : vectorClock[d][d] <= vectorClock'[d][d],
         \A d \in Device : \A t \in Thread : syncThread'[d][t] # S!Idle =>
           \/ syncThread'[d][t] = syncThread[d][t]
           \/ /\ syncThread'[d][t].after <= Len(sent)
              /\ syncThread'[d][t].pc = "get" => vectorClock[d][d] < vectorClock'[d][d]
  PROVE  SyncInv'
<1>0. ASSUME NEW j \in 1 .. Len(sent) PROVE sent[j].dev \in Device /\ Count(j) \in Nat
  <2>1. sent[j] \in SyncMessage
    BY DEF SyncInv, SyncTypes
  <2> QED BY <2>1 DEF Count, SyncMessage
<1>1. \A d \in Device : vectorClock[d][d] \in Nat /\ vectorClock'[d][d] \in Nat
  BY DEF SyncInv, SyncTypes
<1>2. \A j \in 1 .. Len(sent) : Count(j)' = Count(j)
  BY DEF Count
<1>3. \A d, n : Finished(d, n)' = Finished(d, n) /\ Finished(d, n) \subseteq 1 .. Len(sent)
  BY DEF Finished
<1>4. \A j \in 1 .. Len(sent) : Count(j) <= vectorClock'[sent[j].dev][sent[j].dev]
  BY <1>0, <1>1 DEF SyncInv
<1>5. ASSUME NEW d \in Device, NEW t \in Thread, syncThread'[d][t] # S!Idle
      PROVE  /\ syncThread'[d][t].after <= Len(sent)
             /\ syncThread'[d][t].pc = "get" =>
                  \A j \in Finished(d, syncThread'[d][t].after) : Count(j) < vectorClock'[d][d]
  <2>1. CASE syncThread'[d][t] = syncThread[d][t]
    BY <1>0, <1>1, <1>3, <1>5, <2>1 DEF SyncInv
  <2>2. CASE /\ syncThread'[d][t].after <= Len(sent)
             /\ syncThread'[d][t].pc = "get" => vectorClock[d][d] < vectorClock'[d][d]
    <3>1. \A j \in 1 .. Len(sent) : sent[j].dev = d => Count(j) <= vectorClock[d][d]
      BY DEF SyncInv
    <3> QED BY <1>0, <1>1, <2>2, <3>1 DEF Finished
  <2> QED BY <1>5, <2>1, <2>2
<1> QED BY <1>2, <1>3, <1>4, <1>5 DEF SyncInv, Finished, Count

\* A goroutine begins a broadcast.
LEMMA BroadcastKeeps ==
  ASSUME SyncInv, NEW d \in Device, NEW t \in Thread, NEW type \in Kinds,
         NEW c \in Contact \cup {0}, NEW last \in BOOLEAN, NEW size \in PayloadSizes,
         S!Broadcast(d, t, type, c, last, size), UNCHANGED <<vectorClock, sent>>
  PROVE  SyncInv'
<1>1. PICK p \in Cipher : p = S!Encrypt(S!DeviceGroupKey, S!Nonce, S!Bytes(size, "payload"))
  BY DEF Cipher
<1>2. PICK m : m = [pc |-> "update", dev |-> d, type |-> type, contact |-> c, last |-> last,
                    payload |-> p, after |-> Len(sent)]
  OBVIOUS
<1>3. syncThread' = [syncThread EXCEPT ![d][t] = m]
  BY <1>1, <1>2, Zenon DEF S!Broadcast
<1>4. Len(sent) \in Nat
  BY DEF SyncInv, SyncTypes
<1>5. m \in Underway /\ m.after = Len(sent) /\ m.pc = "update"
  BY <1>2, <1>4 DEF Underway
<1>6. SyncTypes'
  BY <1>3, <1>5 DEF SyncInv, SyncTypes
<1>7. \A e \in Device : \A u \in Thread :
        syncThread'[e][u] = syncThread[e][u] \/ syncThread'[e][u] = m
  BY <1>3 DEF SyncInv, SyncTypes
<1>8. \A e \in Device : vectorClock[e][e] <= vectorClock'[e][e]
  BY DEF SyncInv, SyncTypes
<1> QED BY <1>4, <1>5, <1>6, <1>7, <1>8, SyncQuiet

\* It raises the clock.
LEMMA UpdateKeeps ==
  ASSUME SyncInv, NEW d \in Device, NEW t \in Thread, S!updateVectorClock(d, t)
  PROVE  SyncInv'
<1>1. /\ syncThread[d][t].pc = "update"
      /\ vectorClock' = [vectorClock EXCEPT ![d][d] = @ + 1]
      /\ syncThread' = [syncThread EXCEPT ![d][t].pc = "get"] /\ UNCHANGED sent
  BY DEF S!updateVectorClock
<1>2. syncThread[d][t] \in Underway /\ syncThread[d][t] # S!Idle
  BY <1>1 DEF SyncInv, SyncTypes, S!Idle
<1>3. PICK m : m = [syncThread[d][t] EXCEPT !.pc = "get"]
  OBVIOUS
<1>4. m \in Underway /\ m.after = syncThread[d][t].after
  BY <1>2, <1>3 DEF Underway
<1>5. syncThread' = [syncThread EXCEPT ![d][t] = m]
  BY <1>1, <1>3, Zenon
<1>6. SyncTypes'
  <2>1. vectorClock' \in [Device -> [Device -> Nat]]
    BY <1>1 DEF SyncInv, SyncTypes
  <2>2. syncThread' \in [Device -> [Thread -> {S!Idle} \cup Underway]]
    <3>1. m \in {S!Idle} \cup Underway
      BY <1>4
    <3> QED BY <1>5, <3>1 DEF SyncInv, SyncTypes
  <2> QED BY <1>1, <2>1, <2>2 DEF SyncInv, SyncTypes
<1>7. \A e \in Device : vectorClock[e][e] <= vectorClock'[e][e]
  BY <1>1 DEF SyncInv, SyncTypes
<1>8. vectorClock[d][d] < vectorClock'[d][d]
  BY <1>1 DEF SyncInv, SyncTypes
<1>9. \A e \in Device : \A u \in Thread :
        syncThread'[e][u] = syncThread[e][u] \/ (e = d /\ syncThread'[e][u] = m)
  BY <1>5 DEF SyncInv, SyncTypes
<1>10. m.after <= Len(sent)
  BY <1>2, <1>4 DEF SyncInv
<1> QED BY <1>1, <1>6, <1>7, <1>8, <1>9, <1>10, SyncQuiet

\* It reads the clock, which others may have raised since, and finishes.
LEMMA FinishKeeps ==
  ASSUME SyncInv, NEW d \in Device, NEW t \in Thread, S!getVectorClock(d, t)
  PROVE  SyncInv'
<1>0. PICK n \in Nat : n = Len(sent)
  BY DEF SyncInv, SyncTypes
<1>1. PICK m : m = syncThread[d][t]
  OBVIOUS
<1>2. PICK x : x = [dev |-> d, type |-> m.type, contact |-> m.contact, last |-> m.last,
                    payload |-> m.payload, after |-> m.after, clock |-> vectorClock[d]]
  OBVIOUS
<1>3. /\ m.pc = "get" /\ sent' = Append(sent, x) /\ UNCHANGED vectorClock
      /\ syncThread' = [syncThread EXCEPT ![d][t] = S!Idle]
  BY <1>1, <1>2, Zenon DEF S!getVectorClock
<1>4. m \in Underway /\ m # S!Idle
  BY <1>1, <1>3 DEF SyncInv, SyncTypes, S!Idle
<1>5. x \in SyncMessage /\ x.dev = d /\ x.after = m.after /\ x.clock = vectorClock[d]
  BY <1>2, <1>4 DEF SyncInv, SyncTypes, Underway, SyncMessage
<1>6. /\ sent' \in Seq(SyncMessage) /\ Len(sent') = n + 1
      /\ \A j \in 1 .. n : sent'[j] = sent[j]
      /\ sent'[n + 1] = x
  BY <1>0, <1>3, <1>5 DEF SyncInv, SyncTypes
<1>7. SyncTypes'
  BY <1>3, <1>6 DEF SyncInv, SyncTypes
<1>8. /\ \A j \in 1 .. n : Count(j)' = Count(j)
      /\ Count(n + 1)' = vectorClock[d][d] /\ vectorClock[d][d] \in Nat
  <2>1. \A j \in 1 .. n : Count(j)' = Count(j)
    BY <1>6 DEF Count
  <2>2. Count(n + 1)' = vectorClock[d][d]
    BY <1>5, <1>6 DEF Count
  <2> QED BY <2>1, <2>2 DEF SyncInv, SyncTypes
<1>9. ASSUME NEW e, NEW k \in Nat, k <= n PROVE Finished(e, k)' = Finished(e, k)
  BY <1>0, <1>6, <1>9 DEF Finished
<1>10. \A j \in 1 .. n + 1 : j \in 1 .. n \/ j = n + 1
  OBVIOUS
<1>11. m.after \in Nat /\ m.after <= n
  BY <1>0, <1>1, <1>4 DEF SyncInv, Underway
<1>12. \A j \in 1 .. n + 1 : Count(j)' <= vectorClock'[sent'[j].dev][sent'[j].dev]
  <2>1. \A j \in 1 .. n : Count(j) <= vectorClock[sent[j].dev][sent[j].dev]
    BY <1>0 DEF SyncInv
  <2> QED BY <1>3, <1>5, <1>6, <1>8, <1>10, <2>1
<1>13. ASSUME NEW e \in Device, NEW u \in Thread, syncThread'[e][u] # S!Idle
       PROVE  /\ syncThread'[e][u].after <= n + 1
              /\ syncThread'[e][u].pc = "get" =>
                   \A j \in Finished(e, syncThread[e][u].after)' : Count(j)' < vectorClock'[e][e]
  <2>1. syncThread'[e][u] = syncThread[e][u]
    BY <1>3, <1>13 DEF SyncInv, SyncTypes
  <2>2. PICK k \in Nat : k = syncThread[e][u].after /\ k <= n
    BY <1>0, <1>13, <2>1 DEF SyncInv, SyncTypes, Underway
  <2>3. Finished(e, syncThread[e][u].after)' = Finished(e, k)
    <3>1. Finished(e, k)' = Finished(e, k)
      BY <1>9, <2>2
    <3>2. syncThread'[e][u].after = k
      BY <2>1, <2>2
    <3> QED BY <3>1, <3>2 DEF Finished
  <2>4. \A j \in Finished(e, k) : j \in 1 .. n
    BY <1>0 DEF Finished
  <2>5. syncThread[e][u].pc = "get" => \A j \in Finished(e, k) : Count(j) < vectorClock[e][e]
    BY <1>13, <2>1, <2>2 DEF SyncInv
  <2> QED BY <1>3, <1>8, <2>1, <2>2, <2>3, <2>4, <2>5
<1>14. ASSUME NEW i \in 1 .. n + 1
       PROVE  /\ sent'[i].after <= n + 1
              /\ \A j \in Finished(sent[i].dev, sent[i].after)' : Count(j)' < Count(i)'
  <2>1. PICK e, k : e = sent'[i].dev /\ k = sent'[i].after
    OBVIOUS
  <2>2. k \in Nat /\ k <= n /\ \A j \in Finished(e, k) : j \in 1 .. n /\ Count(j) < Count(i)'
    <3>1. CASE i = n + 1
      <4>1. e = d /\ k = m.after
        BY <1>5, <1>6, <2>1, <3>1
      <4>2. \A j \in Finished(d, m.after) : Count(j) < vectorClock[d][d]
        BY <1>1, <1>3, <1>4 DEF SyncInv
      <4>3. Count(i)' = vectorClock[d][d]
        BY <1>8, <3>1
      <4>4. \A j \in Finished(e, k) : j \in 1 .. n
        BY <1>0 DEF Finished
      <4> QED BY <1>11, <4>1, <4>2, <4>3, <4>4
    <3>2. CASE i \in 1 .. n
      <4>1. e = sent[i].dev /\ k = sent[i].after /\ Count(i)' = Count(i)
        BY <1>6, <1>8, <2>1, <3>2
      <4>2. \A j \in Finished(e, k) : j \in 1 .. n /\ Count(j) < Count(i)
        BY <1>0, <3>2, <4>1 DEF SyncInv, Finished
      <4>3. k \in Nat
        <5>1. sent[i] \in SyncMessage
          BY <1>0, <3>2 DEF SyncInv, SyncTypes
        <5> QED BY <4>1, <5>1 DEF SyncMessage
      <4>4. k <= n
        BY <1>0, <3>2, <4>1 DEF SyncInv
      <4> QED BY <4>1, <4>2, <4>3, <4>4
    <3> QED BY <1>10, <3>1, <3>2
  <2>3. Finished(sent[i].dev, sent[i].after)' = Finished(e, k)
    <3>1. Finished(e, k)' = Finished(e, k)
      BY <1>9, <2>2
    <3> QED BY <2>1, <3>1 DEF Finished
  <2> QED BY <1>8, <2>1, <2>2, <2>3
<1>15. Len(sent)' = n + 1
  BY <1>6
<1> QED BY <1>7, <1>12, <1>13, <1>14, <1>15 DEF SyncInv

\* A device hears of a message: its clock does not go back.
LEMMA MergeKeeps ==
  ASSUME SyncInv, NEW d \in Device, NEW i \in 1 .. Len(sent), S!HandleSyncMessage(d, i)
  PROVE  SyncInv'
<1>1. UNCHANGED <<syncThread, sent>>
  BY DEF S!HandleSyncMessage
<1>2. PICK v : v = S!mergeVectorClock(vectorClock[d], sent[i].clock)
  OBVIOUS
<1>3. UNCHANGED vectorClock \/ vectorClock' = [vectorClock EXCEPT ![d] = v]
  BY <1>2 DEF S!HandleSyncMessage
<1>4. sent[i] \in SyncMessage
  BY DEF SyncInv, SyncTypes
<1>5. sent[i].clock \in [Device -> Nat] /\ vectorClock[d] \in [Device -> Nat]
  BY <1>4 DEF SyncMessage, SyncInv, SyncTypes
<1>6. v \in [Device -> Nat] /\ \A e \in Device : vectorClock[d][e] <= v[e]
  BY <1>2, <1>5 DEF S!mergeVectorClock
<1>7. SyncTypes'
  BY <1>1, <1>3, <1>6 DEF SyncInv, SyncTypes
<1>8. ASSUME NEW e \in Device PROVE vectorClock[e][e] <= vectorClock'[e][e]
  <2>1. vectorClock[e][e] \in Nat
    BY DEF SyncInv, SyncTypes
  <2>2. vectorClock'[e] = vectorClock[e] \/ (e = d /\ vectorClock'[e] = v)
    BY <1>3 DEF SyncInv, SyncTypes
  <2> QED BY <1>6, <2>1, <2>2
<1> QED BY <1>1, <1>7, <1>8, SyncQuiet

\* The invariant is inductive.
LEMMA SyncKeeps == SyncInv /\ [S!Next]_(S!vars) => SyncInv'
<1> SUFFICES ASSUME SyncInv, [S!Next]_(S!vars) PROVE SyncInv'
  OBVIOUS
<1>1. ASSUME UNCHANGED <<vectorClock, syncThread, sent>> PROVE SyncInv'
  <2>1. SyncTypes'
    BY <1>1 DEF SyncInv, SyncTypes
  <2>2. \A e \in Device : vectorClock[e][e] <= vectorClock'[e][e]
    BY <1>1 DEF SyncInv, SyncTypes
  <2> QED BY <1>1, <2>1, <2>2, SyncQuiet
<1>2. ASSUME NEW d \in Device, NEW t \in Thread, NEW size \in PayloadSizes, S!BroadcastSync(d, t, size)
      PROVE  SyncInv'
  BY <1>2, BroadcastKeeps DEF S!BroadcastSync, Kinds
<1>3. ASSUME NEW d \in Device, NEW t \in Thread, NEW size \in PayloadSizes, NEW c \in Contact,
             S!RequestHistory(d, t, c, size)
      PROVE  SyncInv'
  BY <1>3, BroadcastKeeps DEF S!RequestHistory, Kinds
<1>4. ASSUME NEW d \in Device, NEW t \in Thread, NEW size \in PayloadSizes, NEW c \in Contact,
             NEW last \in BOOLEAN, S!SendHistoryBatch(d, t, c, last, size)
      PROVE  SyncInv'
  BY <1>4, BroadcastKeeps DEF S!SendHistoryBatch, Kinds
<1>5. ASSUME NEW d \in Device, NEW i \in 1 .. Len(sent), S!HandleHistoryBatch(d, i)
      PROVE  SyncInv'
  BY <1>1, <1>5 DEF S!HandleHistoryBatch
<1>6. CASE UNCHANGED S!vars
  BY <1>1, <1>6 DEF S!vars
<1>7. \A d \in Device : \A t \in IF d = Asker THEN Thread ELSE {Main} : t \in Thread
  BY SyncAssumption
<1> QED BY <1>2, <1>3, <1>4, <1>5, <1>6, <1>7, UpdateKeeps, FinishKeeps, MergeKeeps DEF S!Next

\* What a device did about history: the requests, and the batches since for a
\* contact.
LogEntry == {"request", "batch"} \X (Contact \cup {0}) \X Nat
Asked == [contact : Contact \cup {0}, received : Seq(Nat), complete : BOOLEAN]
MadeIn(l) == {k \in DOMAIN l : l[k][1] = "request"}
SinceIn(l, c) == {k \in DOMAIN l : (\A j \in MadeIn(l) : j < k) /\ l[k][2] = c}

\* The request r holds the batches since it was made.
Held(l, r) ==
  IF MadeIn(l) = {} THEN r = S!NoRequest
  ELSE /\ Len(r.received) = Cardinality(SinceIn(l, r.contact))
       /\ \A k \in SinceIn(l, r.contact) :
            r.received[Cardinality({j \in SinceIn(l, r.contact) : j <= k})] = l[k][3]
       /\ r.complete <=> \E k \in SinceIn(l, r.contact) : sent[l[k][3]].last

\* Batches are for a contact, and those that were handled had been sent.
RequestInv ==
  /\ log \in [Device -> Seq(LogEntry)] /\ request \in [Device -> Asked]
  /\ \A d \in Device : \A t \in Thread :
       syncThread[d][t] # S!Idle /\ syncThread[d][t].type = "batch" => syncThread[d][t].contact # 0
  /\ \A i \in 1 .. Len(sent) : sent[i].type = "batch" => sent[i].contact # 0
  /\ \A d \in Device : \A k \in 1 .. Len(log[d]) :
       log[d][k][1] = "batch" => log[d][k][3] \in 1 .. Len(sent)
  /\ \A d \in Device : Held(log[d], request[d])

\* The invariant gives what a request holds.
LEMMA RequestShown == RequestInv => S!RequestHoldsItsBatches
<1> SUFFICES ASSUME RequestInv PROVE S!RequestHoldsItsBatches
  OBVIOUS
<1>1. \A d \in Device : Held(log[d], request[d])
  BY DEF RequestInv
<1> QED BY <1>1, Zenon DEF S!RequestHoldsItsBatches, S!Cardinality, Cardinality, Held, MadeIn, SinceIn

\* The invariant holds at first.
LEMMA RequestInit == S!Init => RequestInv
<1> SUFFICES ASSUME S!Init PROVE RequestInv
  OBVIOUS
<1>1. /\ sent = <<>> /\ \A d \in Device : \A t \in Thread : syncThread[d][t] = S!Idle
      /\ log = [d \in Device |-> <<>>] /\ request = [d \in Device |-> S!NoRequest]
  BY DEF S!Init
<1>2. S!NoRequest \in Asked
  BY DEF S!NoRequest, Asked
<1>3. Held(<<>>, S!NoRequest)
  BY DEF Held, MadeIn
<1>4. log \in [Device -> Seq(LogEntry)] /\ request \in [Device -> Asked]
  BY <1>1, <1>2
<1>5. \A d \in Device : log[d] = <<>> /\ request[d] = S!NoRequest
  BY <1>1
<1>6. \A i : i \notin 1 .. Len(<<>>)
  OBVIOUS
<1> QED BY <1>1, <1>3, <1>4, <1>5, <1>6 DEF RequestInv

\* Entries of a history since the last request are batches.
LEMMA SinceSent ==
  ASSUME RequestInv, NEW d \in Device, NEW c, NEW k \in SinceIn(log[d], c)
  PROVE  k \in 1 .. Len(log[d]) /\ log[d][k][3] \in 1 .. Len(sent)
<1>1. k \in 1 .. Len(log[d]) /\ k \in Nat /\ log[d] \in Seq(LogEntry)
  BY DEF SinceIn, RequestInv
<1>2. k \notin MadeIn(log[d])
  <2>1. ~(k < k)
    BY <1>1
  <2> QED BY <2>1 DEF SinceIn
<1>3. log[d][k] \in LogEntry
  BY <1>1
<1>4. log[d][k][1] = "batch"
  BY <1>1, <1>2, <1>3 DEF MadeIn, LogEntry
<1> QED BY <1>1, <1>4 DEF RequestInv

\* A request takes the place of an earlier one.
LEMMA HeldRequest ==
  ASSUME NEW l \in Seq(LogEntry), NEW c \in Contact
  PROVE  Held(Append(l, <<"request", c, 0>>), [contact |-> c, received |-> <<>>, complete |-> FALSE])
<1> DEFINE x == <<"request", c, 0>>
           m == Append(l, x)
           r == [contact |-> c, received |-> <<>>, complete |-> FALSE]
<1>1. x \in LogEntry /\ x[1] = "request"
  BY DEF LogEntry
<1>2. Len(m) = Len(l) + 1 /\ m[Len(l) + 1] = x /\ Len(l) \in Nat /\ DOMAIN m = 1 .. Len(m)
  BY <1>1
<1> HIDE DEF x, m
<1>3. Len(l) + 1 \in MadeIn(m)
  BY <1>1, <1>2 DEF MadeIn
<1>4. SinceIn(m, c) = {}
  <2> SUFFICES ASSUME NEW k \in SinceIn(m, c) PROVE FALSE
    OBVIOUS
  <2>1. k \in 1 .. Len(m) /\ Len(l) + 1 < k
    BY <1>3 DEF SinceIn
  <2> QED BY <1>2, <2>1
<1>5. Cardinality({}) = 0 /\ Len(<<>>) = 0
  BY FS_EmptySet
<1>6. r.contact = c /\ r.received = <<>> /\ r.complete = FALSE
  OBVIOUS
<1> HIDE DEF r
<1>7. Held(m, r)
  BY <1>3, <1>4, <1>5, <1>6 DEF Held
<1> QED BY <1>7 DEF m, r, x

\* Batches that are sent later are not among those that were handled.
LEMMA HeldStays ==
  ASSUME NEW l, NEW r, Held(l, r),
         \A k \in SinceIn(l, r.contact) : sent'[l[k][3]] = sent[l[k][3]]
  PROVE  Held(l, r)'
BY DEF Held, MadeIn, SinceIn

\* A batch for the contact of the request is received.
LEMMA HeldBatch ==
  ASSUME NEW l \in Seq(LogEntry), NEW r \in Asked, NEW i \in Nat, NEW s, Held(l, r), MadeIn(l) # {},
         sent[i].last = s, s \in BOOLEAN
  PROVE  Held(Append(l, <<"batch", r.contact, i>>),
              [contact |-> r.contact, received |-> Append(r.received, i), complete |-> r.complete \/ s])
<1> DEFINE x == <<"batch", r.contact, i>>
           m == Append(l, x)
           q == [contact |-> r.contact, received |-> Append(r.received, i),
                 complete |-> r.complete \/ s]
           Since == SinceIn(l, r.contact)
           Q == SinceIn(m, r.contact)
           n == Len(l) + 1
<1>1. /\ r.contact \in Contact \cup {0} /\ r.received \in Seq(Nat) /\ r.complete \in BOOLEAN
      /\ Len(r.received) \in Nat
  BY DEF Asked
<1>2. x \in LogEntry /\ x[1] = "batch" /\ x[2] = r.contact /\ x[3] = i
  BY <1>1 DEF LogEntry
<1>3. q.contact = r.contact /\ q.received = Append(r.received, i) /\ q.complete = (r.complete \/ s)
  OBVIOUS
<1> HIDE DEF x, q
<1>4. /\ Len(l) \in Nat /\ n \in Nat /\ DOMAIN l = 1 .. Len(l) /\ DOMAIN m = 1 .. n
      /\ m[n] = x /\ \A k \in 1 .. Len(l) : m[k] = l[k]
  BY <1>2
<1> HIDE DEF m
<1>5. MadeIn(m) = MadeIn(l) /\ MadeIn(l) \subseteq 1 .. Len(l)
  <2>1. \A k \in 1 .. n : k \in 1 .. Len(l) \/ k = n
    BY <1>4
  <2>2. \A k \in 1 .. Len(l) : k \in 1 .. n
    BY <1>4
  <2> QED BY <1>2, <1>4, <2>1, <2>2 DEF MadeIn
<1>6. Q = Since \cup {n} /\ Since \subseteq 1 .. Len(l)
  <2>1. \A k \in 1 .. n : k \in 1 .. Len(l) \/ k = n
    BY <1>4
  <2>2. n \in 1 .. n /\ \A k \in 1 .. Len(l) : k \in 1 .. n
    BY <1>4
  <2>3. \A j \in MadeIn(l) : j < n
    BY <1>4, <1>5
  <2> QED BY <1>2, <1>4, <1>5, <2>1, <2>2, <2>3 DEF SinceIn
<1>7. IsFiniteSet(Since) /\ n \notin Since
  <2>1. IsFiniteSet(1 .. Len(l))
    BY <1>4, FS_Interval
  <2>2. n \notin 1 .. Len(l)
    BY <1>4
  <2> QED BY <1>6, <2>1, <2>2, FS_Subset
<1>8. /\ Len(r.received) = Cardinality(Since)
      /\ \A k \in Since : r.received[Cardinality({j \in Since : j <= k})] = l[k][3]
      /\ r.complete <=> \E k \in Since : sent[l[k][3]].last
  BY DEF Held
<1> HIDE DEF Since, Q
<1>9. Cardinality(Q) = Len(r.received) + 1 /\ Cardinality(Since) \in Nat
  BY <1>6, <1>7, <1>8, FS_AddElement, FS_CardinalityType
<1>10. /\ Len(q.received) = Len(r.received) + 1 /\ q.received[Len(r.received) + 1] = i
       /\ \A k \in 1 .. Len(r.received) : q.received[k] = r.received[k]
  BY <1>1, <1>3
<1>11. ASSUME NEW k \in Q
       PROVE  q.received[Cardinality({j \in Q : j <= k})] = m[k][3]
  <2>1. CASE k = n
    <3>1. {j \in Q : j <= k} = Q
      <4>1. \A j \in 1 .. Len(l) : j <= n
        BY <1>4
      <4>2. n <= n
        BY <1>4
      <4>3. \A j \in Q : j <= k
        <5> HIDE DEF n
        <5> QED BY <1>6, <2>1, <4>1, <4>2
      <4> QED BY <4>3, Zenon
    <3> QED BY <1>2, <1>4, <1>9, <1>10, <2>1, <3>1
  <2>2. CASE k \in Since
    <3>1. {j \in Q : j <= k} = {j \in Since : j <= k}
      <4>1. ~(n <= k)
        BY <1>4, <1>6, <2>2
      <4> QED BY <1>6, <4>1
    <3>2. Cardinality({j \in Since : j <= k}) \in 1 .. Len(r.received)
      <4> DEFINE A == {j \in Since : j <= k}
      <4>1. IsFiniteSet(A) /\ Cardinality(A) <= Cardinality(Since)
        <5>1. A \subseteq Since
          OBVIOUS
        <5> HIDE DEF A
        <5> QED BY <1>7, <5>1, FS_Subset
      <4>2. k \in A
        BY <1>4, <1>6, <2>2
      <4> HIDE DEF A
      <4>3. Cardinality(A) # 0 /\ Cardinality(A) \in Nat
        BY <4>1, <4>2, FS_EmptySet, FS_CardinalityType
      <4>4. Cardinality(A) \in 1 .. Len(r.received)
        BY <1>1, <1>8, <4>1, <4>3
      <4> QED BY <4>4 DEF A
    <3>3. m[k] = l[k]
      BY <1>4, <1>6, <2>2
    <3> QED BY <1>8, <1>10, <2>2, <3>1, <3>2, <3>3
  <2> QED BY <1>6, <2>1, <2>2
<1>12. q.complete <=> \E k \in Q : sent[m[k][3]].last
  <2>1. sent[m[n][3]].last = s
    BY <1>2, <1>4
  <2>2. \A k \in Since : m[k] = l[k]
    BY <1>4, <1>6
  <2> QED BY <1>1, <1>3, <1>6, <1>8, <2>1, <2>2
<1>13. MadeIn(m) # {}
  BY <1>5
<1>14. Held(m, q)
  BY <1>3, <1>9, <1>10, <1>11, <1>12, <1>13, ZenonT(40) DEF Held, Q
<1> QED BY <1>14 DEF m, x, q

\* One for another contact is not, and none is before there is a request.
LEMMA HeldOther ==
  ASSUME NEW l \in Seq(LogEntry), NEW r \in Asked, NEW i \in Nat, NEW c \in Contact, Held(l, r),
         c # r.contact
  PROVE  Held(Append(l, <<"batch", c, i>>), r)
<1> DEFINE x == <<"batch", c, i>>
           m == Append(l, x)
           Since == SinceIn(l, r.contact)
           n == Len(l) + 1
<1>1. x \in LogEntry /\ x[1] = "batch" /\ x[2] = c
  BY DEF LogEntry
<1> HIDE DEF x
<1>2. /\ Len(l) \in Nat /\ n \in Nat /\ DOMAIN l = 1 .. Len(l) /\ DOMAIN m = 1 .. n
      /\ m[n] = x /\ \A k \in 1 .. Len(l) : m[k] = l[k]
  BY <1>1
<1> HIDE DEF m
<1>3. \A k \in 1 .. n : k \in 1 .. Len(l) \/ k = n
  BY <1>2
<1>4. \A k \in 1 .. Len(l) : k \in 1 .. n
  BY <1>2
<1>5. MadeIn(m) = MadeIn(l)
  BY <1>1, <1>2, <1>3, <1>4 DEF MadeIn
<1>6. SinceIn(m, r.contact) = Since /\ Since \subseteq 1 .. Len(l)
  BY <1>1, <1>2, <1>3, <1>4, <1>5 DEF SinceIn
<1>7. \A k \in Since : m[k] = l[k]
  BY <1>2, <1>6
<1> HIDE DEF Since
<1>8. IF MadeIn(l) = {} THEN r = S!NoRequest
      ELSE /\ Len(r.received) = Cardinality(Since)
           /\ \A k \in Since : r.received[Cardinality({j \in Since : j <= k})] = l[k][3]
           /\ r.complete <=> \E k \in Since : sent[l[k][3]].last
  BY DEF Held, Since
<1>9. CASE MadeIn(l) = {}
  <2>1. Held(m, r)
    BY <1>5, <1>8, <1>9 DEF Held
  <2> QED BY <2>1 DEF m, x
<1>10. CASE MadeIn(l) # {}
  <2>1. Held(m, r)
    BY <1>5, <1>6, <1>7, <1>8, <1>10 DEF Held
  <2> QED BY <2>1 DEF m, x
<1> QED BY <1>9, <1>10

\* Steps that make no request and handle no batch.
LEMMA RequestStays ==
  ASSUME RequestInv, SyncInv, UNCHANGED <<log, request>>,
         \A j \in 1 .. Len(sent) : j \in 1 .. Len(sent') /\ sent'[j] = sent[j],
         \A j \in 1 .. Len(sent') : sent'[j].type = "batch" => sent'[j].contact # 0,
         \A d \in Device : \A t \in Thread :
           syncThread'[d][t] # S!Idle /\ syncThread'[d][t].type = "batch"
             => syncThread'[d][t].contact # 0
  PROVE  RequestInv'
<1>1. ASSUME NEW d \in Device PROVE Held(log[d], request[d])'
  <2>1. PICK l, r : l = log[d] /\ r = request[d]
    OBVIOUS
  <2>2. Held(l, r)
    BY <2>1 DEF RequestInv
  <2>3. \A k \in SinceIn(l, r.contact) : sent'[l[k][3]] = sent[l[k][3]]
    BY <2>1, SinceSent
  <2>4. Held(l, r)'
    BY <2>2, <2>3, HeldStays
  <2>5. log'[d] = l /\ request'[d] = r
    BY <2>1
  <2> QED BY <2>4, <2>5
<1>2. \A d \in Device : \A k \in 1 .. Len(log[d]) :
        log[d][k][1] = "batch" => log[d][k][3] \in 1 .. Len(sent')
  BY DEF RequestInv
<1>3. log' \in [Device -> Seq(LogEntry)] /\ request' \in [Device -> Asked]
  BY DEF RequestInv
<1> QED BY <1>1, <1>2, <1>3 DEF RequestInv

\* The goroutines after a broadcast began.
LEMMA BroadcastNamed ==
  ASSUME RequestInv, SyncInv, NEW d \in Device, NEW t \in Thread, NEW type, NEW c, NEW last, NEW size,
         S!Broadcast(d, t, type, c, last, size), type = "batch" => c # 0
  PROVE  \A e \in Device : \A u \in Thread :
           syncThread'[e][u] # S!Idle /\ syncThread'[e][u].type = "batch"
             => syncThread'[e][u].contact # 0
<1>1. PICK p : p = S!Encrypt(S!DeviceGroupKey, S!Nonce, S!Bytes(size, "payload"))
  OBVIOUS
<1>2. PICK m : m = [pc |-> "update", dev |-> d, type |-> type, contact |-> c, last |-> last,
                    payload |-> p, after |-> Len(sent)]
  OBVIOUS
<1>3. syncThread' = [syncThread EXCEPT ![d][t] = m]
  BY <1>1, <1>2, Zenon DEF S!Broadcast
<1>4. m.type = type /\ m.contact = c
  BY <1>2
<1>5. \A e \in Device : \A u \in Thread :
        syncThread'[e][u] = syncThread[e][u] \/ syncThread'[e][u] = m
  BY <1>3 DEF SyncInv, SyncTypes
<1> QED BY <1>4, <1>5 DEF RequestInv

\* A request is made.
LEMMA RequestMade ==
  ASSUME RequestInv, SyncInv, NEW d \in Device, NEW t \in Thread, NEW c \in Contact,
         NEW size \in PayloadSizes, S!RequestHistory(d, t, c, size)
  PROVE  RequestInv'
<1>1. PICK x : x = <<"request", c, 0>>
  OBVIOUS
<1>2. PICK r : r = [contact |-> c, received |-> <<>>, complete |-> FALSE]
  OBVIOUS
<1>3. [S!NoRequest EXCEPT !.contact = c] = r
  <2>1. PICK f : f = FALSE
    OBVIOUS
  <2>2. S!NoRequest = [contact |-> 0, received |-> <<>>, complete |-> f]
    BY <2>1 DEF S!NoRequest
  <2>3. r = [contact |-> c, received |-> <<>>, complete |-> f]
    BY <1>2, <2>1
  <2> QED BY ONLY <2>2, <2>3
<1>4. /\ request' = [request EXCEPT ![d] = r] /\ log' = [log EXCEPT ![d] = Append(log[d], x)]
      /\ sent' = sent
  BY <1>1, <1>3 DEF S!RequestHistory
<1>5. \A e \in Device : \A u \in Thread :
        syncThread'[e][u] # S!Idle /\ syncThread'[e][u].type = "batch"
          => syncThread'[e][u].contact # 0
  BY BroadcastNamed DEF S!RequestHistory
<1>6. x \in LogEntry /\ x[1] = "request" /\ r \in Asked
  BY <1>1, <1>2 DEF LogEntry, Asked
<1>7. log[d] \in Seq(LogEntry) /\ DOMAIN log = Device /\ DOMAIN request = Device
  BY DEF RequestInv
<1>8. PICK n \in Nat : n = Len(log[d])
  BY <1>7
<1>9. PICK m : m = Append(log[d], x)
  OBVIOUS
<1>10. m \in Seq(LogEntry) /\ Len(m) = n + 1 /\ m[n + 1] = x /\ \A k \in 1 .. n : m[k] = log[d][k]
  BY <1>6, <1>7, <1>8, <1>9
<1>11. log' \in [Device -> Seq(LogEntry)] /\ request' \in [Device -> Asked]
  BY <1>4, <1>6, <1>9, <1>10 DEF RequestInv
<1>12. ASSUME NEW e \in Device, NEW k \in 1 .. Len(log'[e]), log'[e][k][1] = "batch"
       PROVE  log'[e][k][3] \in 1 .. Len(sent)
  <2>1. CASE e # d
    BY <1>4, <1>7, <1>12, <2>1 DEF RequestInv
  <2>2. CASE e = d
    <3>1. log'[e] = m
      BY <1>4, <1>7, <1>9, <2>2
    <3>2. k \in 1 .. n \/ k = n + 1
      BY <1>10, <3>1
    <3>3. k # n + 1
      <4>1. x[1] # "batch"
        BY <1>6
      <4> QED BY <1>10, <1>12, <3>1, <4>1
    <3>4. k \in 1 .. Len(log[d]) /\ m[k] = log[d][k]
      BY <1>8, <1>10, <3>2, <3>3
    <3> QED BY <1>12, <3>1, <3>4 DEF RequestInv
  <2> QED BY <2>1, <2>2
<1>13. ASSUME NEW e \in Device PROVE Held(log[e], request[e])'
  <2>1. CASE e = d
    <3>1. Held(m, r)
      BY <1>1, <1>2, <1>7, <1>9, HeldRequest
    <3>2. log'[e] = m /\ request'[e] = r
      BY <1>4, <1>7, <1>9, <2>1
    <3>3. Held(m, r)'
      BY <1>4, <3>1, HeldStays
    <3> QED BY <3>2, <3>3
  <2>2. CASE e # d
    <3>1. PICK l, q : l = log[e] /\ q = request[e]
      OBVIOUS
    <3>2. log'[e] = l /\ request'[e] = q
      BY <1>4, <1>7, <2>2, <3>1
    <3>3. Held(l, q)'
      BY <1>4, <3>1, HeldStays DEF RequestInv
    <3> QED BY <3>2, <3>3
  <2> QED BY <2>1, <2>2
<1> QED BY <1>4, <1>5, <1>11, <1>12, <1>13 DEF RequestInv

\* A batch is handled.
LEMMA RequestHandled ==
  ASSUME RequestInv, SyncInv, NEW d \in Device, NEW i \in 1 .. Len(sent), S!HandleHistoryBatch(d, i)
  PROVE  RequestInv'
<1>1. PICK c, s, r : c = sent[i].contact /\ s = sent[i].last /\ r = request[d]
  OBVIOUS
<1>2. PICK x : x = <<"batch", c, i>>
  OBVIOUS
<1>3. PICK q : q = [contact |-> r.contact, received |-> Append(r.received, i),
                    complete |-> r.complete \/ s]
  OBVIOUS
<1>4. sent[i].type = "batch" /\ log' = [log EXCEPT ![d] = Append(log[d], x)]
      /\ UNCHANGED <<sent, syncThread>>
  BY <1>1, <1>2 DEF S!HandleHistoryBatch
<1>5. c \in Contact /\ s \in BOOLEAN /\ i \in Nat
  <2>1. sent[i] \in SyncMessage
    BY DEF SyncInv, SyncTypes
  <2> QED BY <1>1, <1>4, <2>1 DEF SyncMessage, RequestInv
<1>6. /\ log[d] \in Seq(LogEntry) /\ DOMAIN log = Device /\ request \in [Device -> Asked]
      /\ r \in Asked /\ r.received \in Seq(Nat) /\ r.complete \in BOOLEAN
  BY <1>1 DEF RequestInv, Asked
<1>7. x \in LogEntry /\ x[3] = i
  BY <1>2, <1>5 DEF LogEntry
<1>8. q \in Asked
  <2>1. PICK B : B = BOOLEAN
    OBVIOUS
  <2>2. PICK f : f = (r.complete \/ s)
    OBVIOUS
  <2>3. f \in B
    BY <2>1, <2>2, Zenon
  <2>4. i \in Nat /\ r.received \in Seq(Nat)
    BY <1>5, <1>6, Zenon
  <2>5. PICK v : v = Append(r.received, i)
    OBVIOUS
  <2>6. v \in Seq(Nat)
    BY <2>4, <2>5
  <2>7. r.contact \in Contact \cup {0}
    BY <1>6 DEF Asked
  <2>8. q = [contact |-> r.contact, received |-> v, complete |-> f]
    BY <1>3, <2>2, <2>5, Zenon
  <2>9. q \in [contact : Contact \cup {0}, received : Seq(Nat), complete : B]
    BY <2>3, <2>6, <2>7, <2>8
  <2> QED BY <2>1, <2>9 DEF Asked
<1>9. request' = [request EXCEPT ![d] = IF r.contact = c THEN q ELSE r]
  <2>1. CASE r.contact = c
    <3>1. request' = [request EXCEPT ![d].received = Append(@, i), ![d].complete = @ \/ s]
      BY <1>1, <2>1 DEF S!HandleHistoryBatch
    <3>2. PICK v, f : v = Append(r.received, i) /\ f = (r.complete \/ s)
      OBVIOUS
    <3>3. request' = [[request EXCEPT ![d] = [r EXCEPT !.received = v]]
                        EXCEPT ![d] = [[r EXCEPT !.received = v] EXCEPT !.complete = f]]
      BY <1>1, <1>6, <3>1, <3>2
    <3>4. [[r EXCEPT !.received = v] EXCEPT !.complete = f] = q
      <4>1. q = [contact |-> r.contact, received |-> v, complete |-> f]
        BY <1>3, <3>2, Zenon
      <4>2. PICK a, b, g : r = [contact |-> a, received |-> b, complete |-> g] /\ r.contact = a
        BY <1>6 DEF Asked
      <4>3. [r EXCEPT !.received = v] = [contact |-> a, received |-> v, complete |-> g]
        BY ONLY <4>2
      <4>4. PICK u : u = [r EXCEPT !.received = v]
        OBVIOUS
      <4>5. [u EXCEPT !.complete = f] = [contact |-> a, received |-> v, complete |-> f]
        <5>1. u = [contact |-> a, received |-> v, complete |-> g]
          BY <4>3, <4>4, Zenon
        <5> QED BY ONLY <5>1
      <4> QED BY <4>1, <4>2, <4>4, <4>5, Zenon
    <3> QED BY <1>6, <2>1, <3>3, <3>4
  <2>2. CASE r.contact # c
    BY <1>1, <1>6, <2>2 DEF S!HandleHistoryBatch
  <2> QED BY <2>1, <2>2
<1>10. PICK n \in Nat : n = Len(log[d])
  BY <1>6
<1>11. PICK m : m = Append(log[d], x)
  OBVIOUS
<1>12. m \in Seq(LogEntry) /\ Len(m) = n + 1 /\ m[n + 1] = x /\ \A k \in 1 .. n : m[k] = log[d][k]
  BY <1>6, <1>7, <1>10, <1>11
<1>13. log' \in [Device -> Seq(LogEntry)]
  BY <1>4, <1>11, <1>12 DEF RequestInv
<1>14. request' \in [Device -> Asked]
  BY <1>6, <1>8, <1>9
<1>15. ASSUME NEW e \in Device, NEW k \in 1 .. Len(log'[e]), log'[e][k][1] = "batch"
       PROVE  log'[e][k][3] \in 1 .. Len(sent)
  <2>1. CASE e # d
    BY <1>4, <1>6, <1>15, <2>1 DEF RequestInv
  <2>2. CASE e = d
    <3>1. log'[e] = m
      BY <1>4, <1>6, <1>11, <2>2
    <3>2. k \in 1 .. n \/ k = n + 1
      BY <1>12, <3>1
    <3>3. CASE k = n + 1
      BY <1>7, <1>12, <3>1, <3>3
    <3>4. CASE k \in 1 .. n
      <4>1. k \in 1 .. Len(log[d]) /\ m[k] = log[d][k]
        BY <1>10, <1>12, <3>4
      <4> QED BY <1>15, <3>1, <4>1 DEF RequestInv
    <3> QED BY <3>2, <3>3, <3>4
  <2> QED BY <2>1, <2>2
<1>16. ASSUME NEW e \in Device PROVE Held(log[e], request[e])'
  <2>1. CASE e = d
    <3>1. PICK w : w = IF r.contact = c THEN q ELSE r
      OBVIOUS
    <3>2. log'[e] = m /\ request'[e] = w
      BY <1>4, <1>6, <1>9, <1>11, <2>1, <3>1
    <3>3. Held(log[d], r)
      BY <1>1 DEF RequestInv
    <3>4. Held(m, w)
      <4>1. CASE r.contact # c
        BY <1>2, <1>5, <1>6, <1>11, <3>1, <3>3, <4>1, HeldOther
      <4>2. CASE r.contact = c
        <5>1. MadeIn(log[d]) # {}
          <6>1. r.contact # 0
            BY <1>5, <4>2, SyncAssumption
          <6>2. S!NoRequest.contact = 0
            BY DEF S!NoRequest
          <6> QED BY <3>3, <6>1, <6>2 DEF Held
        <5>2. w = q
          BY <3>1, <4>2
        <5>3. Held(Append(log[d], <<"batch", r.contact, i>>),
                   [contact |-> r.contact, received |-> Append(r.received, i),
                    complete |-> r.complete \/ s])
          BY <1>1, <1>5, <1>6, <3>3, <5>1, HeldBatch
        <5> QED BY <1>2, <1>3, <1>11, <4>2, <5>2, <5>3
      <4> QED BY <4>1, <4>2
    <3>5. Held(m, w)'
      BY <1>4, <3>4, HeldStays
    <3> QED BY <3>2, <3>5
  <2>2. CASE e # d
    <3>1. PICK l, w : l = log[e] /\ w = request[e]
      OBVIOUS
    <3>2. log'[e] = l /\ request'[e] = w
      BY <1>4, <1>6, <1>9, <2>2, <3>1
    <3>3. Held(l, w)'
      BY <1>4, <3>1, HeldStays DEF RequestInv
    <3> QED BY <3>2, <3>3
  <2> QED BY <2>1, <2>2
<1> QED BY <1>4, <1>13, <1>14, <1>15, <1>16 DEF RequestInv

\* The invariant is inductive.
LEMMA RequestKeeps == RequestInv /\ SyncInv /\ [S!Next]_(S!vars) => RequestInv'
<1> SUFFICES ASSUME RequestInv, SyncInv, [S!Next]_(S!vars) PROVE RequestInv'
  OBVIOUS
<1>0. /\ \A j \in 1 .. Len(sent) : sent[j].type = "batch" => sent[j].contact # 0
      /\ \A d \in Device : \A t \in Thread :
           syncThread[d][t] # S!Idle /\ syncThread[d][t].type = "batch" => syncThread[d][t].contact # 0
  BY DEF RequestInv
<1>1. ASSUME NEW d \in Device, NEW t \in Thread, NEW size \in PayloadSizes, S!BroadcastSync(d, t, size)
      PROVE  RequestInv'
  <2>1. S!Broadcast(d, t, "change", 0, FALSE, size) /\ UNCHANGED <<sent, log, request>>
    BY <1>1 DEF S!BroadcastSync
  <2>2. \A e \in Device : \A u \in Thread :
          syncThread'[e][u] # S!Idle /\ syncThread'[e][u].type = "batch"
            => syncThread'[e][u].contact # 0
    BY <2>1, BroadcastNamed
  <2> QED BY <1>0, <2>1, <2>2, RequestStays
<1>2. ASSUME NEW d \in Device, NEW t \in Thread, NEW size \in PayloadSizes, NEW c \in Contact,
             NEW last \in BOOLEAN, S!SendHistoryBatch(d, t, c, last, size)
      PROVE  RequestInv'
  <2>1. S!Broadcast(d, t, "batch", c, last, size) /\ UNCHANGED <<sent, log, request>>
    BY <1>2 DEF S!SendHistoryBatch
  <2>2. \A e \in Device : \A u \in Thread :
          syncThread'[e][u] # S!Idle /\ syncThread'[e][u].type = "batch"
            => syncThread'[e][u].contact # 0
    BY <2>1, BroadcastNamed, SyncAssumption
  <2> QED BY <1>0, <2>1, <2>2, RequestStays
<1>3. ASSUME NEW d \in Device, NEW t \in Thread, S!updateVectorClock(d, t)
      PROVE  RequestInv'
  <2>1. /\ syncThread[d][t].pc = "update" /\ UNCHANGED <<sent, log, request>>
        /\ syncThread' = [syncThread EXCEPT ![d][t].pc = "get"]
    BY <1>3 DEF S!updateVectorClock
  <2>2. syncThread[d][t] \in Underway /\ syncThread[d][t] # S!Idle
    BY <2>1 DEF SyncInv, SyncTypes, S!Idle
  <2>3. PICK m : m = [syncThread[d][t] EXCEPT !.pc = "get"]
    OBVIOUS
  <2>4. m.type = syncThread[d][t].type /\ m.contact = syncThread[d][t].contact
    BY <2>2, <2>3 DEF Underway
  <2>5. syncThread' = [syncThread EXCEPT ![d][t] = m]
    BY <2>1, <2>3, Zenon
  <2>6. \A e \in Device : \A u \in Thread :
          syncThread'[e][u] = syncThread[e][u] \/ (e = d /\ u = t /\ syncThread'[e][u] = m)
    BY <2>5 DEF SyncInv, SyncTypes
  <2>7. \A e \in Device : \A u \in Thread :
          syncThread'[e][u] # S!Idle /\ syncThread'[e][u].type = "batch"
            => syncThread'[e][u].contact # 0
    BY <1>0, <2>2, <2>4, <2>6
  <2> QED BY <1>0, <2>1, <2>7, RequestStays
<1>4. ASSUME NEW d \in Device, NEW t \in Thread, S!getVectorClock(d, t)
      PROVE  RequestInv'
  <2>0. PICK n \in Nat : n = Len(sent)
    BY DEF SyncInv, SyncTypes
  <2>1. PICK m : m = syncThread[d][t]
    OBVIOUS
  <2>2. PICK x : x = [dev |-> d, type |-> m.type, contact |-> m.contact, last |-> m.last,
                      payload |-> m.payload, after |-> m.after, clock |-> vectorClock[d]]
    OBVIOUS
  <2>3. /\ m.pc = "get" /\ sent' = Append(sent, x) /\ UNCHANGED <<log, request>>
        /\ syncThread' = [syncThread EXCEPT ![d][t] = S!Idle]
    BY <1>4, <2>1, <2>2, Zenon DEF S!getVectorClock
  <2>4. m \in Underway /\ m # S!Idle
    BY <2>1, <2>3 DEF SyncInv, SyncTypes, S!Idle
  <2>5. x.type = m.type /\ x.contact = m.contact /\ x \in SyncMessage
    BY <2>2, <2>4 DEF SyncInv, SyncTypes, Underway, SyncMessage
  <2>6. /\ Len(sent') = n + 1 /\ sent'[n + 1] = x
        /\ \A j \in 1 .. n : sent'[j] = sent[j] /\ j \in 1 .. n + 1
    BY <2>0, <2>3, <2>5 DEF SyncInv, SyncTypes
  <2>7. \A j \in 1 .. n + 1 : j \in 1 .. n \/ j = n + 1
    OBVIOUS
  <2>8. \A j \in 1 .. Len(sent') : sent'[j].type = "batch" => sent'[j].contact # 0
    BY <1>0, <2>0, <2>1, <2>4, <2>5, <2>6, <2>7
  <2>9. \A e \in Device : \A u \in Thread :
          syncThread'[e][u] # S!Idle => syncThread'[e][u] = syncThread[e][u]
    BY <2>3 DEF SyncInv, SyncTypes
  <2>10. \A e \in Device : \A u \in Thread :
           syncThread'[e][u] # S!Idle /\ syncThread'[e][u].type = "batch"
             => syncThread'[e][u].contact # 0
    BY <1>0, <2>9
  <2>11. \A j \in 1 .. Len(sent) : j \in 1 .. Len(sent') /\ sent'[j] = sent[j]
    BY <2>0, <2>6
  <2> QED BY <2>3, <2>8, <2>10, <2>11, RequestStays
<1>5. ASSUME UNCHANGED <<syncThread, sent, log, request>> PROVE RequestInv'
  BY <1>0, <1>5, RequestStays
<1>6. ASSUME NEW d \in Device, NEW i \in 1 .. Len(sent), S!HandleSyncMessage(d, i)
      PROVE  RequestInv'
  BY <1>5, <1>6 DEF S!HandleSyncMessage
<1>7. CASE UNCHANGED S!vars
  BY <1>5, <1>7 DEF S!vars
<1>8. \A d \in Device : \A t \in IF d = Asker THEN Thread ELSE {Main} : t \in Thread
  BY SyncAssumption
<1> QED BY <1>1, <1>2, <1>3, <1>4, <1>6, <1>7, <1>8, RequestMade, RequestHandled DEF S!Next

\* Although goroutines raise and read the vector clock in two critical sections,
\* a broadcast that begins after another of its device was finished carries a
\* greater count of that device; and a history request holds the batches for its
\* contact since it was made, in their order, and none of the request it took
\* the place of (SyncManager.BroadcastSync, updateVectorClock, getVectorClock,
\* RequestHistory, HandleHistoryBatch).
THEOREM SyncKept == S!Spec => []SyncSound
<1>1. S!Init => SyncInv /\ RequestInv
  BY SyncInit, RequestInit
<1>2. SyncInv /\ RequestInv /\ [S!Next]_(S!vars) => SyncInv' /\ RequestInv'
  BY SyncKeeps, RequestKeeps
<1>3. SyncInv /\ RequestInv => SyncSound
  BY SyncShown, RequestShown DEF SyncSound, S!SyncSound
<1> QED BY <1>1, <1>2, <1>3, PTL DEF S!Spec

-----------------------------------------------------------------------------
(* Public groups: mutes, bans and the rate limit.                          *)

\* A reader that is about to delete a mute found one that expired, and nobody
\* mutes while it is inside.
MuteInv ==
  /\ now \in Nat
  /\ muted \in [Member -> Nat] /\ granted \in [Member -> Nat]
  /\ reading \in [Reader -> Member \cup {P!NoOne}]
  /\ \A r \in Reader : reading[r] # P!NoOne => granted[reading[r]] <= now
  /\ P!MuteHolds /\ P!BannedOut

\* The invariant holds at first.
LEMMA MuteInit == P!Init => MuteInv
BY ModerationAssumption DEF P!Init, MuteInv, P!MuteHolds, P!BannedOut

\* Steps that leave the mutes alone.
LEMMA MutesStay ==
  ASSUME MuteInv, UNCHANGED <<muted, granted, reading>>, now' \in {now, now + 1},
         P!BannedOut'
  PROVE  MuteInv'
BY DEF MuteInv, P!MuteHolds

\* The invariant is inductive.
LEMMA MuteKeeps == MuteInv /\ [P!Next]_(P!vars) => MuteInv'
<1> SUFFICES ASSUME MuteInv, [P!Next]_(P!vars) PROVE MuteInv'
  OBVIOUS
<1>1. ASSUME UNCHANGED P!groupVars PROVE P!BannedOut'
  BY <1>1 DEF MuteInv, P!BannedOut, P!groupVars
<1>2. CASE P!Tick
  BY <1>1, <1>2, MutesStay DEF P!Tick, P!muteVars
<1>3. ASSUME NEW m \in Member, P!AddMember(m) PROVE MuteInv'
  <2>1. P!BannedOut'
    BY <1>3 DEF MuteInv, P!BannedOut, P!AddMember
  <2> QED BY <1>3, <2>1, MutesStay DEF P!AddMember, P!muteVars
<1>4. ASSUME NEW m \in Member, P!BanMember(m) PROVE MuteInv'
  <2>1. /\ banned' = banned \cup {m} /\ UNCHANGED <<readmitted, P!muteVars, reading, now>>
        /\ m \in members \ {Creator} => members' = members \ {m}
        /\ m \notin members \ {Creator} => members' = members
    BY <1>4 DEF P!BanMember, P!RemoveMember
  <2>2. P!BannedOut'
    BY <2>1 DEF MuteInv, P!BannedOut
  <2> QED BY <2>1, <2>2, MutesStay DEF P!muteVars
<1>5. ASSUME NEW m \in Member, P!CheckRateLimit(m) PROVE MuteInv'
  BY <1>1, <1>5, MutesStay DEF P!CheckRateLimit, P!muteVars
<1>6. ASSUME NEW m \in Member, NEW d \in Durations, P!MuteMember(m, d) PROVE MuteInv'
  <2>1. PICK x : x = P!Expiry(d)
    OBVIOUS
  <2>2. /\ \A r \in Reader : reading[r] = P!NoOne
        /\ muted' = [muted EXCEPT ![m] = x] /\ granted' = [granted EXCEPT ![m] = x]
        /\ UNCHANGED <<P!groupVars, reading, now>>
    BY <1>6, <2>1 DEF P!MuteMember, P!Locked
  <2>3. x \in Nat
    BY <2>1, ModerationAssumption DEF MuteInv, P!Expiry
  <2> QED BY <1>1, <2>2, <2>3 DEF MuteInv, P!MuteHolds
<1>7. ASSUME NEW m \in Member, NEW r \in Reader, P!IsMuted(r, m) PROVE MuteInv'
  <2>1. /\ muted[m] <= now /\ reading' = [reading EXCEPT ![r] = m]
        /\ UNCHANGED <<P!groupVars, muted, granted, now>>
    BY <1>7 DEF P!IsMuted, P!muteVars
  <2>2. granted[m] <= now
    BY <2>1 DEF MuteInv, P!MuteHolds
  <2> QED BY <1>1, <2>1, <2>2 DEF MuteInv, P!MuteHolds
<1>8. ASSUME NEW r \in Reader, P!DeleteExpired(r) PROVE MuteInv'
  <2>1. /\ reading[r] # P!NoOne /\ muted' = [muted EXCEPT ![reading[r]] = 0]
        /\ reading' = [reading EXCEPT ![r] = P!NoOne]
        /\ UNCHANGED <<P!groupVars, granted, now>>
    BY <1>8 DEF P!DeleteExpired
  <2>2. reading[r] \in Member /\ granted[reading[r]] <= now
    BY <2>1 DEF MuteInv
  <2>3. P!MuteHolds'
    BY <2>1, <2>2 DEF MuteInv, P!MuteHolds
  <2> QED BY <1>1, <2>1, <2>2, <2>3 DEF MuteInv
<1>9. CASE UNCHANGED P!vars
  BY <1>1, <1>9, MutesStay DEF P!vars, P!groupVars, P!muteVars
<1> QED BY <1>2, <1>3, <1>4, <1>5, <1>6, <1>7, <1>8, <1>9 DEF P!Next

\* What the loop of CheckRateLimit has kept after each of the first n times.
IsKept(f, s, c, n) ==
  f = [i \in 0 .. n |-> IF i = 0 THEN <<>>
                        ELSE IF s[i] > c THEN Append(f[i - 1], s[i]) ELSE f[i - 1]]

\* The loop comes to its end.
LEMMA KeptExists ==
  ASSUME NEW s \in Seq(Nat), NEW c, NEW n \in 0 .. Len(s)
  PROVE  \E f : IsKept(f, s, c, n)
<1>0. Len(s) \in Nat
  OBVIOUS
<1> DEFINE J == {m \in 0 .. Len(s) : ~\E f : IsKept(f, s, c, m)}
<1>1. SUFFICES ASSUME J # {} PROVE FALSE
  OBVIOUS
<1>2. PICK j \in J : \A i \in J : j <= i
  <2>1. J \in SUBSET Nat
    BY <1>0
  <2> HIDE DEF J
  <2> QED BY <1>1, <2>1, LeastIndex
<1>3. CASE j = 0
  <2> DEFINE f == [i \in 0 .. 0 |-> <<>>]
  <2>1. IsKept(f, s, c, 0)
    BY DEF IsKept
  <2> QED BY <1>3, <2>1
<1>4. CASE j # 0
  <2>1. j \in Nat /\ j - 1 \in 0 .. Len(s) /\ j - 1 \notin J
    <3>1. j \in 1 .. Len(s) /\ j - 1 \in 0 .. Len(s)
      BY <1>0, <1>4
    <3> HIDE DEF J
    <3> QED BY <1>2, <3>1
  <2>2. PICK f : IsKept(f, s, c, j - 1)
    BY <2>1
  <2> DEFINE V(h, i) == IF i = 0 THEN <<>>
                        ELSE IF s[i] > c THEN Append(h[i - 1], s[i]) ELSE h[i - 1]
             g == [i \in 0 .. j |-> IF i = j THEN V(f, j) ELSE f[i]]
  <2>3. ASSUME NEW i \in 0 .. j PROVE g[i] = V(g, i)
    <3>1. CASE i = j
      <4>1. g[j] = V(f, j) /\ g[j - 1] = f[j - 1]
        BY <1>4, <2>1
      <4> HIDE DEF g
      <4> QED BY <1>4, <3>1, <4>1
    <3>2. CASE i # j
      <4>1. i \in 0 .. j - 1 /\ g[i] = f[i]
        BY <2>1, <3>2
      <4>2. f[i] = V(f, i)
        BY <2>2, <4>1 DEF IsKept
      <4>3. i # 0 => g[i - 1] = f[i - 1]
        BY <2>1, <4>1
      <4> HIDE DEF g
      <4> QED BY <4>1, <4>2, <4>3
    <3> QED BY <3>1, <3>2
  <2>4. g = [i \in 0 .. j |-> g[i]]
    OBVIOUS
  <2> HIDE DEF g
  <2>5. IsKept(g, s, c, j)
    BY <2>3, <2>4, Zenon DEF IsKept
  <2> QED BY <2>5
<1> QED BY <1>3, <1>4

\* An index is the last or one of those before.
LEMMA LastOrBefore == \A n \in Int : \A k \in 1 .. n + 1 : k = n + 1 \/ k \in 1 .. n
OBVIOUS

Sorted(s) == \A i, j \in 1 .. Len(s) : i <= j => s[i] <= s[j]

\* The end r of s is left after the first d, none of which exceeds c.
Remains(r, s, c, d) ==
  /\ r \in Seq(Nat) /\ Len(r) = Len(s) - d
  /\ \A k \in 1 .. Len(r) : r[k] = s[d + k]
  /\ \A k \in 1 .. d : s[k] <= c

\* The loop drops the first times, as they were noted in order.
LEMMA KeepsTheEnd ==
  ASSUME NEW s \in Seq(Nat), NEW c \in Nat, Sorted(s)
  PROVE  \E d \in 0 .. Len(s) : Remains(P!After(s, c), s, c, d)
<1>0. Len(s) \in Nat /\ \A i \in 1 .. Len(s) : s[i] \in Nat
  OBVIOUS
<1>1. PICK f : IsKept(f, s, c, Len(s))
  <2>1. Len(s) \in 0 .. Len(s)
    BY <1>0
  <2> QED BY <2>1, KeptExists
<1> DEFINE h == CHOOSE g : IsKept(g, s, c, Len(s))
<1>2. IsKept(h, s, c, Len(s))
  BY <1>1
<1>3. P!After(s, c) = h[Len(s)]
  BY DEF P!After, IsKept
<1> HIDE DEF h
<1>4. \A i \in 0 .. Len(s) :
        h[i] = IF i = 0 THEN <<>> ELSE IF s[i] > c THEN Append(h[i - 1], s[i]) ELSE h[i - 1]
  BY <1>2, Zenon DEF IsKept
<1> DEFINE Good(i, d) == /\ h[i] \in Seq(Nat) /\ Len(h[i]) = i - d
                         /\ \A k \in 1 .. i - d : h[i][k] = s[d + k] /\ s[d + k] > c
                         /\ \A k \in 1 .. d : s[k] <= c
           J == {i \in 0 .. Len(s) : ~\E d \in 0 .. i : Good(i, d)}
<1>5. J = {}
  <2> SUFFICES ASSUME J # {} PROVE FALSE
    OBVIOUS
  <2>1. PICK j \in J : \A i \in J : j <= i
    <3>1. J \in SUBSET Nat
      BY <1>0
    <3> HIDE DEF J
    <3> QED BY <3>1, LeastIndex
  <2>2. CASE j = 0
    <3>1. h[0] = <<>>
      BY <1>0, <1>4
    <3>2. Good(0, 0)
      BY <3>1
    <3> HIDE DEF Good
    <3>3. 0 \in 0 .. 0
      OBVIOUS
    <3> QED BY <2>2, <3>2, <3>3
  <2>3. CASE j # 0
    <3>1. PICK i : i = j - 1
      OBVIOUS
    <3>2. i \in Nat /\ j = i + 1 /\ i \in 0 .. Len(s) /\ j \in 1 .. Len(s) /\ i \notin J
      <4>1. j \in 1 .. Len(s) /\ j \in Nat
        BY <1>0, <2>3
      <4> HIDE DEF J
      <4> QED BY <1>0, <2>1, <3>1, <4>1
    <3>3. PICK d \in 0 .. i : Good(i, d)
      BY <3>2
    <3>4. d \in Nat
      BY <3>2
    <3>5. CASE s[j] > c
      <4>1. h[j] = Append(h[i], s[j])
        BY <1>0, <1>4, <2>3, <3>1, <3>2, <3>5
      <4>2. Good(j, d)
        <5>1. s[j] \in Nat /\ h[i] \in Seq(Nat) /\ Len(h[i]) = i - d
          BY <1>0, <3>2, <3>3
        <5>2. /\ h[j] \in Seq(Nat) /\ Len(h[j]) = j - d
              /\ h[j][i - d + 1] = s[j] /\ \A k \in 1 .. i - d : h[j][k] = h[i][k]
          BY <3>2, <3>4, <4>1, <5>1, SMTT(40)
        <5>3. ASSUME NEW k \in 1 .. j - d PROVE h[j][k] = s[d + k] /\ s[d + k] > c
          <6>1. k = i - d + 1 \/ k \in 1 .. i - d
            <7>1. j - d = i - d + 1 /\ i - d \in Int
              BY <3>2, <3>4, SMTT(40)
            <7>2. PICK n : n = i - d
              OBVIOUS
            <7>3. k \in 1 .. n + 1 /\ n \in Int
              BY <7>1, <7>2
            <7> QED BY <7>2, <7>3, LastOrBefore
          <6>2. k = i - d + 1 => d + k = j
            BY <3>2, <3>4
          <6> QED BY <3>3, <3>5, <5>2, <6>1, <6>2
        <5> QED BY <3>3, <5>2, <5>3
      <4> HIDE DEF Good
      <4>3. d \in 0 .. j
        BY <3>2, <3>4
      <4> QED BY <4>2, <4>3
    <3>6. CASE ~(s[j] > c)
      <4>1. h[j] = h[i]
        BY <1>0, <1>4, <2>3, <3>1, <3>2, <3>6
      <4>2. s[j] \in Nat /\ s[j] <= c
        BY <1>0, <3>2, <3>6
      <4>3. \A k \in 1 .. j : k \in 1 .. Len(s) /\ s[k] \in Nat /\ s[k] <= s[j]
        <5> SUFFICES ASSUME NEW k \in 1 .. j
                     PROVE  k \in 1 .. Len(s) /\ s[k] \in Nat /\ s[k] <= s[j]
          OBVIOUS
        <5>1. k \in 1 .. Len(s) /\ k <= j
          BY <1>0, <3>2
        <5> QED BY <1>0, <3>2, <5>1 DEF Sorted
      <4>4. \A k \in 1 .. j : s[k] <= c
        <5> SUFFICES ASSUME NEW k \in 1 .. j PROVE s[k] <= c
          OBVIOUS
        <5>1. PICK a \in Nat, b \in Nat : a = s[k] /\ b = s[j]
          BY <4>2, <4>3
        <5>2. a <= b /\ b <= c
          BY <4>2, <4>3, <5>1
        <5>3. a <= c
          BY ONLY <5>2, a \in Nat, b \in Nat, c \in Nat
        <5> QED BY <5>1, <5>3
      <4>5. d = i
        <5>1. SUFFICES ASSUME d < i PROVE FALSE
          BY <3>2, <3>3, <3>4
        <5>2. 1 \in 1 .. i - d /\ d + 1 \in 1 .. j
          BY <3>2, <3>4, <5>1, SMTT(40)
        <5>3. s[d + 1] > c /\ s[d + 1] <= c /\ s[d + 1] \in Nat
          BY <3>3, <4>3, <4>4, <5>2
        <5> QED BY <5>3
      <4>6. h[j] = <<>>
        BY <3>3, <4>1, <4>5
      <4>7. Good(j, j)
        BY <3>2, <4>4, <4>6
      <4> HIDE DEF Good
      <4>8. j \in 0 .. j
        BY <3>2
      <4> QED BY <4>7, <4>8
    <3> QED BY <3>5, <3>6
  <2> QED BY <2>2, <2>3
<1>6. PICK d \in 0 .. Len(s) : Good(Len(s), d)
  <2>1. Len(s) \in 0 .. Len(s)
    BY <1>0
  <2> HIDE DEF Good
  <2> QED BY <1>5, <2>1
<1>7. Remains(P!After(s, c), s, c, d)
  BY <1>0, <1>3, <1>6 DEF Remains
<1> QED BY <1>7

Cap == IF Limit > 1 THEN Limit ELSE 1

\* What CheckRateLimit has noted of a sender is the end of the times at which a
\* message was allowed, and the times before it have left the window.
Noted(a, r, t) == \E d \in 0 .. Len(a) : Remains(r, a, t - Window, d)

\* Messages further apart than the limit are further apart than the window.
Spaced(a) == \A i \in 1 .. Len(a) - Cap : a[i] + Window <= a[i + Cap]

\* The times at which messages of a sender were allowed.
Times(a, t) == /\ a \in Seq(Nat) /\ Sorted(a) /\ Spaced(a)
               /\ \A i \in 1 .. Len(a) : a[i] <= t

\* The inductive invariant of the rate limit.
RateInv ==
  /\ now \in Start .. MaxNow
  /\ DOMAIN allowed = Member
  /\ \A m \in Member : Times(allowed[m], now)
  /\ \A m \in Member : IF m \in DOMAIN rateLimits THEN Noted(allowed[m], rateLimits[m], now)
                       ELSE allowed[m] = <<>>

\* The limit is at least one.
LEMMA CapFact == Cap \in Nat \ {0} /\ (Limit \in Nat => Cap >= Limit)
BY ModerationAssumption DEF Cap

\* Nothing has been allowed at first.
LEMMA TimesEmpty == ASSUME NEW t PROVE Times(<<>>, t)
<1>1. \A i : i \notin 1 .. Len(<<>>)
  OBVIOUS
<1>2. Spaced(<<>>)
  BY CapFact DEF Spaced
<1> QED BY <1>1, <1>2 DEF Times, Sorted

\* A further message may be allowed when the one that is as many before as the
\* limit has left the window.
LEMMA TimesAppend ==
  ASSUME NEW a, NEW t \in Nat, Times(a, t), Len(a) >= Cap => a[Len(a) + 1 - Cap] + Window <= t
  PROVE  Times(Append(a, t), t)
<1> DEFINE b == Append(a, t)
<1>0. a \in Seq(Nat) /\ Len(a) \in Nat /\ Cap \in Nat \ {0} /\ \A i \in 1 .. Len(a) : a[i] \in Nat
  BY CapFact DEF Times
<1>1. /\ b \in Seq(Nat) /\ Len(b) = Len(a) + 1 /\ b[Len(a) + 1] = t
      /\ \A i \in 1 .. Len(a) : b[i] = a[i]
  BY <1>0
<1> HIDE DEF b
<1>2. ASSUME NEW i \in 1 .. Len(b) PROVE b[i] <= t
  <2>1. i = Len(a) + 1 \/ i \in 1 .. Len(a)
    BY <1>0, <1>1
  <2>2. CASE i = Len(a) + 1
    BY <1>1, <2>2
  <2>3. CASE i \in 1 .. Len(a)
    BY <1>1, <2>3 DEF Times
  <2> QED BY <2>1, <2>2, <2>3
<1>3. Sorted(b)
  <2> SUFFICES ASSUME NEW i \in 1 .. Len(b), NEW j \in 1 .. Len(b), i <= j PROVE b[i] <= b[j]
    BY DEF Sorted
  <2>1. j = Len(a) + 1 \/ (i \in 1 .. Len(a) /\ j \in 1 .. Len(a))
    <3>1. j \in 1 .. Len(a) + 1 /\ Len(a) \in Int
      BY <1>0, <1>1
    <3>2. j = Len(a) + 1 \/ j \in 1 .. Len(a)
      BY <3>1, LastOrBefore
    <3>3. j \in 1 .. Len(a) => i \in 1 .. Len(a)
      BY <1>0
    <3> QED BY <3>2, <3>3
  <2> QED BY <1>1, <1>2, <2>1 DEF Times, Sorted
<1>4. Spaced(b)
  <2> SUFFICES ASSUME NEW i \in 1 .. Len(b) - Cap PROVE b[i] + Window <= b[i + Cap]
    BY DEF Spaced
  <2>1. i \in 1 .. Len(a) /\ i + Cap \in 1 .. Len(a) + 1
    BY <1>0, <1>1
  <2>2. CASE i + Cap = Len(a) + 1
    <3>1. i = Len(a) + 1 - Cap /\ Len(a) >= Cap
      BY <1>0, <2>1, <2>2
    <3> QED BY <1>1, <2>1, <2>2, <3>1
  <2>3. CASE i + Cap # Len(a) + 1
    <3>1. i \in 1 .. Len(a) - Cap /\ i + Cap \in 1 .. Len(a)
      <4>1. PICK n \in Nat, c \in Nat : n = Len(a) /\ c = Cap
        BY <1>0
      <4>2. i + c \in 1 .. n + 1 /\ i \in 1 .. n /\ i + c # n + 1
        BY <2>1, <2>3, <4>1
      <4>3. i \in 1 .. n - c /\ i + c \in 1 .. n
        BY <4>2
      <4> QED BY <4>1, <4>3
    <3> QED BY <1>1, <2>1, <3>1 DEF Times, Spaced
  <2> QED BY <2>2, <2>3
<1>5. b \in Seq(Nat)
  BY <1>1
<1> QED BY <1>2, <1>3, <1>4, <1>5 DEF Times, b

\* What was noted stays the end of what was allowed when the loop drops times
\* of it that have left the window.
LEMMA NotedAfter ==
  ASSUME NEW a, NEW r, NEW t \in Nat, Window <= t, Window \in Nat, Times(a, t), Noted(a, r, t)
  PROVE  Noted(a, P!After(r, t - Window), t)
<1>0. a \in Seq(Nat) /\ Len(a) \in Nat /\ t - Window \in Nat
  BY DEF Times
<1>1. PICK d \in 0 .. Len(a) : Remains(r, a, t - Window, d)
  BY DEF Noted
<1>2. r \in Seq(Nat) /\ Len(r) = Len(a) - d /\ d \in Nat
  BY <1>0, <1>1 DEF Remains
<1>3. Sorted(r)
  <2> SUFFICES ASSUME NEW i \in 1 .. Len(r), NEW j \in 1 .. Len(r), i <= j PROVE r[i] <= r[j]
    BY DEF Sorted
  <2>1. d + i \in 1 .. Len(a) /\ d + j \in 1 .. Len(a) /\ d + i <= d + j
    BY <1>0, <1>2
  <2> QED BY <1>1, <2>1 DEF Remains, Times, Sorted
<1>4. PICK e \in 0 .. Len(r) : Remains(P!After(r, t - Window), r, t - Window, e)
  BY <1>0, <1>2, <1>3, KeepsTheEnd
<1>5. d + e \in 0 .. Len(a) /\ e \in Nat
  BY <1>0, <1>2
<1>6. Remains(P!After(r, t - Window), a, t - Window, d + e)
  <2> DEFINE q == P!After(r, t - Window)
  <2>1. q \in Seq(Nat) /\ Len(q) = Len(r) - e
    BY <1>4 DEF Remains
  <2>2. ASSUME NEW k \in 1 .. Len(q) PROVE q[k] = a[(d + e) + k]
    <3>1. q[k] = r[e + k]
      BY <1>4 DEF Remains
    <3>2. e + k \in 1 .. Len(r) /\ d + (e + k) = (d + e) + k
      <4> HIDE DEF q
      <4> QED BY <1>0, <1>2, <1>5, <2>1
    <3> QED BY <1>1, <3>1, <3>2 DEF Remains
  <2>3. ASSUME NEW k \in 1 .. d + e PROVE a[k] <= t - Window
    <3>1. k \in 1 .. d \/ (k - d \in 1 .. e /\ k - d \in 1 .. Len(r) /\ d + (k - d) = k)
      BY <1>0, <1>2, <1>5
    <3> QED BY <1>1, <1>4, <3>1 DEF Remains
  <2>4. Len(q) = Len(a) - (d + e)
    <3> HIDE DEF q
    <3> QED BY <1>0, <1>2, <1>5, <2>1
  <2> QED BY <2>1, <2>2, <2>3, <2>4 DEF Remains
<1> QED BY <1>5, <1>6 DEF Noted

\* What is allowed is noted.
LEMMA NotedAppend ==
  ASSUME NEW a \in Seq(Nat), NEW r, NEW t \in Nat, Noted(a, r, t)
  PROVE  Noted(Append(a, t), Append(r, t), t)
<1>1. PICK d \in 0 .. Len(a) : Remains(r, a, t - Window, d)
  BY DEF Noted
<1>2. r \in Seq(Nat) /\ Len(r) = Len(a) - d /\ d \in Nat /\ Len(a) \in Nat
  BY <1>1 DEF Remains
<1> DEFINE b == Append(a, t)
           q == Append(r, t)
<1>3. /\ b \in Seq(Nat) /\ Len(b) = Len(a) + 1 /\ b[Len(a) + 1] = t
      /\ \A i \in 1 .. Len(a) : b[i] = a[i]
  OBVIOUS
<1>4. /\ q \in Seq(Nat) /\ Len(q) = Len(r) + 1 /\ q[Len(r) + 1] = t
      /\ \A i \in 1 .. Len(r) : q[i] = r[i]
  BY <1>2
<1> HIDE DEF b, q
<1>5. ASSUME NEW k \in 1 .. Len(q) PROVE q[k] = b[d + k]
  <2>1. k = Len(r) + 1 \/ k \in 1 .. Len(r)
    <3>1. k \in 1 .. Len(r) + 1 /\ Len(r) \in Int
      BY <1>2, <1>4
    <3> QED BY <3>1, LastOrBefore
  <2>2. CASE k = Len(r) + 1
    <3>1. d + k = Len(a) + 1
      BY <1>2, <2>2
    <3> QED BY <1>3, <1>4, <2>2, <3>1
  <2>3. CASE k \in 1 .. Len(r)
    <3>1. d + k \in 1 .. Len(a)
      BY <1>2, <2>3
    <3> QED BY <1>1, <1>3, <1>4, <2>3, <3>1 DEF Remains
  <2> QED BY <2>1, <2>2, <2>3
<1>6. \A k \in 1 .. d : b[k] <= t - Window
  <2> SUFFICES ASSUME NEW k \in 1 .. d PROVE b[k] <= t - Window
    OBVIOUS
  <2>1. k \in 1 .. Len(a)
    BY <1>2
  <2> QED BY <1>1, <1>3, <2>1 DEF Remains
<1>7. Len(q) = Len(b) - d /\ d \in 0 .. Len(b)
  BY <1>2, <1>3, <1>4
<1>8. Remains(q, b, t - Window, d)
  BY <1>4, <1>5, <1>6, <1>7 DEF Remains
<1>9. Noted(b, q, t)
  BY <1>7, <1>8 DEF Noted
<1> QED BY <1>9 DEF b, q

\* What was noted stays so as time goes on.
LEMMA NotedLater ==
  ASSUME NEW a, NEW r, NEW t \in Nat, Window \in Nat, Times(a, t)
  PROVE  Times(a, t + 1) /\ (Noted(a, r, t) => Noted(a, r, t + 1))
<1>0. a \in Seq(Nat) /\ Len(a) \in Nat /\ \A i \in 1 .. Len(a) : a[i] \in Nat
  BY DEF Times
<1>1. Times(a, t + 1)
  <2>1. \A i \in 1 .. Len(a) : a[i] <= t + 1
    BY <1>0 DEF Times
  <2> QED BY <2>1 DEF Times
<1>2. ASSUME Noted(a, r, t) PROVE Noted(a, r, t + 1)
  <2>1. PICK d \in 0 .. Len(a) : Remains(r, a, t - Window, d)
    BY <1>2 DEF Noted
  <2>2. ASSUME NEW k \in 1 .. d PROVE a[k] <= (t + 1) - Window
    <3>1. PICK n \in Nat : n = a[k]
      BY <1>0
    <3>2. n <= t - Window
      BY <2>1, <3>1 DEF Remains
    <3>3. n <= (t + 1) - Window
      BY <3>2
    <3> QED BY <3>1, <3>3
  <2>3. Remains(r, a, (t + 1) - Window, d)
    BY <2>1, <2>2 DEF Remains
  <2> QED BY <2>3 DEF Noted
<1> QED BY <1>1, <1>2

\* The window never begins before 1970.
LEMMA Cutoff ==
  ASSUME NEW t \in Start .. MaxNow
  PROVE  t \in Nat /\ Window \in Nat /\ Window <= t /\ (t - Window) % Word = t - Window
<1>1. t \in Nat /\ Window \in Nat /\ Window <= t /\ Word \in Nat \ {0}
  BY ModerationAssumption
<1>2. PICK n \in Nat : n = t - Window
  BY <1>1
<1>3. n < Word
  BY <1>2, ModerationAssumption
<1>4. n % Word = n
  BY ONLY <1>1, <1>3, n \in Nat
<1> QED BY <1>1, <1>2, <1>4

\* The invariant holds at first.
LEMMA RateInit == P!Init => RateInv
<1> SUFFICES ASSUME P!Init PROVE RateInv
  OBVIOUS
<1>1. now = Start /\ rateLimits = <<>> /\ allowed = [m \in Member |-> <<>>]
  BY DEF P!Init
<1>2. now \in Start .. MaxNow
  BY <1>1, ModerationAssumption
<1>3. DOMAIN rateLimits = {}
  BY <1>1
<1> QED BY <1>1, <1>2, <1>3, TimesEmpty DEF RateInv

\* CheckRateLimit keeps the invariant.
LEMMA RateChecked ==
  ASSUME RateInv, NEW m \in Member, P!CheckRateLimit(m)
  PROVE  RateInv'
<1>1. PICK a, q : a = allowed[m] /\ q = P!Recent(m)
  OBVIOUS
<1>2. now \in Start .. MaxNow /\ now' = now /\ DOMAIN allowed = Member
  BY DEF RateInv, P!CheckRateLimit
<1>3. Times(a, now) /\ Cap \in Nat \ {0} /\ Limit \in Nat /\ now \in Nat
  BY <1>1, <1>2, Cutoff, CapFact, ModerationAssumption DEF RateInv
<1>4. a \in Seq(Nat) /\ Len(a) \in Nat /\ \A i \in 1 .. Len(a) : a[i] \in Nat
  BY <1>3 DEF Times
<1>5. Noted(a, q, now)
  <2>1. CASE m \in DOMAIN rateLimits
    <3>1. q = P!After(rateLimits[m], (now - Window) % Word)
      BY <1>1, <2>1 DEF P!Recent
    <3>2. Noted(a, rateLimits[m], now)
      BY <1>1, <2>1 DEF RateInv
    <3> QED BY <1>2, <1>3, <3>1, <3>2, Cutoff, NotedAfter
  <2>2. CASE m \notin DOMAIN rateLimits
    <3>1. a = <<>> /\ q = <<>>
      BY <1>1, <2>2 DEF RateInv, P!Recent
    <3>2. Remains(<<>>, <<>>, now - Window, 0)
      BY DEF Remains
    <3> QED BY <3>1, <3>2 DEF Noted
  <2> QED BY <2>1, <2>2
<1>6. CASE m \in DOMAIN rateLimits /\ Len(q) >= Limit
  <2>1. rateLimits' = [rateLimits EXCEPT ![m] = q] /\ UNCHANGED <<allowed, now>>
    BY <1>1, <1>6 DEF P!CheckRateLimit
  <2>2. DOMAIN rateLimits' = DOMAIN rateLimits
    BY <2>1
  <2>3. ASSUME NEW k \in Member
        PROVE  /\ Times(allowed'[k], now')
               /\ IF k \in DOMAIN rateLimits' THEN Noted(allowed'[k], rateLimits'[k], now')
                  ELSE allowed'[k] = <<>>
    BY <1>1, <1>5, <1>6, <2>1, <2>2 DEF RateInv
  <2> QED BY <1>2, <2>1, <2>3 DEF RateInv
<1>7. CASE ~(m \in DOMAIN rateLimits /\ Len(q) >= Limit)
  <2>1. /\ rateLimits' = [k \in DOMAIN rateLimits \cup {m} |->
                            IF k = m THEN Append(q, now) ELSE rateLimits[k]]
        /\ allowed' = [allowed EXCEPT ![m] = Append(a, now)] /\ UNCHANGED now
    BY <1>1, <1>7 DEF P!CheckRateLimit
  <2>2. Times(Append(a, now), now)
    <3>1. SUFFICES ASSUME Len(a) >= Cap PROVE a[Len(a) + 1 - Cap] + Window <= now
      BY <1>3, TimesAppend
    <3>2. m \in DOMAIN rateLimits
      BY <1>1, <1>3, <3>1 DEF RateInv
    <3>3. PICK d \in 0 .. Len(a) : Remains(q, a, now - Window, d)
      BY <1>5 DEF Noted
    <3>4. PICK n : n = Len(a) + 1 - Cap
      OBVIOUS
    <3>5. n \in 1 .. d
      <4>1. Len(q) = Len(a) - d /\ Len(q) \in Nat /\ d \in Nat
        BY <1>4, <3>3 DEF Remains
      <4>2. Len(q) < Limit /\ Cap >= Limit
        BY <1>3, <1>7, <3>2, <4>1, CapFact
      <4>3. PICK x \in Nat, y \in Nat, c \in Nat : x = Len(a) /\ y = Len(q) /\ c = Cap
        BY <1>3, <1>4, <4>1
      <4>4. y = x - d /\ y < Limit /\ c >= Limit /\ x >= c /\ c # 0 /\ n = x + 1 - c
        BY <1>3, <3>1, <3>4, <4>1, <4>2, <4>3
      <4> QED BY ONLY <4>4, x \in Nat, y \in Nat, c \in Nat, <1>3, <4>1
    <3>6. a[n] <= now - Window /\ a[n] \in Nat
      <4>1. n \in 1 .. Len(a)
        BY <1>4, <3>5
      <4> QED BY <1>4, <3>3, <3>5, <4>1 DEF Remains
    <3> QED BY <1>2, <1>3, <3>4, <3>6, Cutoff
  <2>3. Noted(Append(a, now), Append(q, now), now)
    BY <1>3, <1>4, <1>5, NotedAppend
  <2>4. DOMAIN rateLimits' = DOMAIN rateLimits \cup {m} /\ DOMAIN allowed' = Member
    BY <1>2, <2>1
  <2>5. ASSUME NEW k \in Member
        PROVE  /\ Times(allowed'[k], now')
               /\ IF k \in DOMAIN rateLimits' THEN Noted(allowed'[k], rateLimits'[k], now')
                  ELSE allowed'[k] = <<>>
    <3>1. CASE k = m
      <4>1. allowed'[k] = Append(a, now) /\ k \in DOMAIN rateLimits' /\ rateLimits'[k] = Append(q, now)
        BY <1>2, <2>1, <3>1
      <4> QED BY <2>1, <2>2, <2>3, <4>1
    <3>2. CASE k # m
      <4>1. /\ allowed'[k] = allowed[k] /\ (k \in DOMAIN rateLimits' <=> k \in DOMAIN rateLimits)
            /\ k \in DOMAIN rateLimits => rateLimits'[k] = rateLimits[k]
        BY <1>2, <2>1, <3>2
      <4> QED BY <2>1, <4>1 DEF RateInv
    <3> QED BY <3>1, <3>2
  <2> QED BY <1>2, <2>1, <2>4, <2>5 DEF RateInv
<1> QED BY <1>6, <1>7

\* The invariant is inductive.
LEMMA RateKeeps == RateInv /\ [P!Next]_(P!vars) => RateInv'
<1> SUFFICES ASSUME RateInv, [P!Next]_(P!vars) PROVE RateInv'
  OBVIOUS
<1>1. ASSUME UNCHANGED <<P!rateVars, now>> PROVE RateInv'
  BY <1>1 DEF RateInv, P!rateVars
<1>2. CASE P!Tick
  <2>1. now' = now + 1 /\ now < MaxNow /\ UNCHANGED <<rateLimits, allowed>>
    BY <1>2 DEF P!Tick, P!rateVars
  <2>2. now \in Start .. MaxNow /\ now \in Nat /\ Window \in Nat
    BY Cutoff DEF RateInv
  <2>3. now' \in Start .. MaxNow
    BY <2>1, <2>2, ModerationAssumption
  <2>4. ASSUME NEW k \in Member
        PROVE  /\ Times(allowed'[k], now')
               /\ IF k \in DOMAIN rateLimits' THEN Noted(allowed'[k], rateLimits'[k], now')
                  ELSE allowed'[k] = <<>>
    <3>1. Times(allowed[k], now)
      BY DEF RateInv
    <3>2. /\ Times(allowed[k], now + 1)
          /\ Noted(allowed[k], rateLimits[k], now) => Noted(allowed[k], rateLimits[k], now + 1)
      BY <2>2, <3>1, NotedLater
    <3> QED BY <2>1, <3>2 DEF RateInv
  <2> QED BY <2>1, <2>3, <2>4 DEF RateInv
<1>3. ASSUME NEW m \in Member, P!AddMember(m) PROVE RateInv'
  BY <1>1, <1>3 DEF P!AddMember
<1>4. ASSUME NEW m \in Member, P!BanMember(m) PROVE RateInv'
  BY <1>1, <1>4 DEF P!BanMember
<1>5. ASSUME NEW m \in Member, P!CheckRateLimit(m) PROVE RateInv'
  BY <1>5, RateChecked
<1>6. ASSUME NEW m \in Member, NEW d \in Durations, P!MuteMember(m, d) PROVE RateInv'
  BY <1>1, <1>6 DEF P!MuteMember
<1>7. ASSUME NEW m \in Member, NEW r \in Reader, P!IsMuted(r, m) PROVE RateInv'
  BY <1>1, <1>7 DEF P!IsMuted
<1>8. ASSUME NEW r \in Reader, P!DeleteExpired(r) PROVE RateInv'
  BY <1>1, <1>8 DEF P!DeleteExpired
<1>9. CASE UNCHANGED P!vars
  BY <1>1, <1>9 DEF P!vars, P!rateVars
<1> QED BY <1>2, <1>3, <1>4, <1>5, <1>6, <1>7, <1>8, <1>9 DEF P!Next

\* Times further apart than the window: no window has more than the limit.
LEMMA SpacedFew ==
  ASSUME NEW a, NEW n, Times(a, n), NEW t \in Nat, Window \in Nat
  PROVE  Cardinality({i \in DOMAIN a : t - Window < a[i] /\ a[i] <= t}) <= Cap
<1> DEFINE Picked == {i \in DOMAIN a : t - Window < a[i] /\ a[i] <= t}
<1>0. /\ a \in Seq(Nat) /\ Len(a) \in Nat /\ DOMAIN a = 1 .. Len(a) /\ Cap \in Nat \ {0}
      /\ \A i \in 1 .. Len(a) : a[i] \in Nat
  BY CapFact DEF Times
<1>1. CASE Picked = {}
  <2>1. Cardinality(Picked) = 0
    BY <1>1, FS_EmptySet
  <2> HIDE DEF Picked
  <2>2. Cardinality(Picked) <= Cap
    BY <1>0, <2>1
  <2> QED BY <2>2 DEF Picked
<1>2. CASE Picked # {}
  <2>1. PICK l \in Picked : \A i \in Picked : l <= i
    <3>1. Picked \in SUBSET Nat
      BY <1>0
    <3> HIDE DEF Picked
    <3> QED BY <1>2, <3>1, LeastIndex
  <2>2. l \in 1 .. Len(a) /\ l \in Nat /\ a[l] \in Nat /\ t - Window < a[l]
    BY <1>0
  <2>3. ASSUME NEW i \in Picked PROVE i \in l .. l + Cap - 1
    <3>1. i \in 1 .. Len(a) /\ i \in Nat /\ a[i] \in Nat /\ a[i] <= t /\ l <= i
      BY <1>0, <2>1
    <3>2. SUFFICES ASSUME i >= l + Cap PROVE FALSE
      BY <1>0, <2>2, <3>1
    <3>3. l \in 1 .. Len(a) - Cap /\ l + Cap \in 1 .. Len(a) /\ l + Cap <= i
      BY <1>0, <2>2, <3>1, <3>2
    <3>4. PICK x \in Nat, y \in Nat, z \in Nat : x = a[l] /\ y = a[l + Cap] /\ z = a[i]
      BY <1>0, <2>2, <3>1, <3>3
    <3>5. x + Window <= y /\ y <= z /\ z <= t /\ t - Window < x
      BY <2>2, <3>1, <3>3, <3>4 DEF Times, Spaced, Sorted
    <3> QED BY ONLY <3>5, x \in Nat, y \in Nat, z \in Nat, t \in Nat, Window \in Nat
  <2>4. Picked \subseteq l .. l + Cap - 1
    BY <2>3
  <2> HIDE DEF Picked
  <2>5. l + Cap - 1 \in Int /\ l \in Int /\ l + Cap - 1 >= l
    BY <1>0, <2>2
  <2>6. IsFiniteSet(l .. l + Cap - 1) /\ Cardinality(l .. l + Cap - 1) = Cap
    <3>1. (l + Cap - 1) - l + 1 = Cap /\ ~(l > l + Cap - 1)
      BY <1>0, <2>2
    <3> QED BY <2>5, <3>1, FS_Interval
  <2>7. Cardinality(Picked) <= Cap
    <3>1. PICK T : T = l .. l + Cap - 1
      OBVIOUS
    <3>2. IsFiniteSet(T) /\ Picked \subseteq T /\ Cardinality(T) = Cap
      BY <2>4, <2>6, <3>1
    <3>3. Cardinality(Picked) <= Cardinality(T)
      BY <3>2, FS_Subset
    <3> QED BY <3>2, <3>3
  <2> QED BY <2>7 DEF Picked
<1> QED BY <1>1, <1>2

\* The rate limit follows from the invariant.
LEMMA RateFollows == RateInv => P!RateHolds
<1> SUFFICES ASSUME RateInv, NEW m \in Member, NEW t \in Start .. now
             PROVE  Cardinality({i \in DOMAIN allowed[m] :
                      t - Window < allowed[m][i] /\ allowed[m][i] <= t}) <= Cap
  BY DEF P!RateHolds, P!Cardinality, Cardinality, Cap
<1>1. t \in Nat /\ Window \in Nat
  BY ModerationAssumption
<1>2. Times(allowed[m], now)
  BY DEF RateInv
<1> QED BY <1>1, <1>2, SpacedFew

\* In no window more messages of a sender are allowed than the limit says or
\* one; a mute that was granted holds until it expires, whatever readers that
\* came upon an expired one delete meanwhile; and who is banned is out, but for
\* the creator and who was added again (PublicGroupService.CheckRateLimit,
\* IsMuted, MuteMember, BanMember).
THEOREM ModerationKept == P!Spec => []ModerationHolds
<1>1. P!Init => MuteInv /\ RateInv
  BY MuteInit, RateInit
<1>2. MuteInv /\ RateInv /\ [P!Next]_(P!vars) => MuteInv' /\ RateInv'
  BY MuteKeeps, RateKeeps
<1>3. MuteInv /\ RateInv => ModerationHolds
  BY RateFollows DEF MuteInv, ModerationHolds, P!ModerationHolds
<1> QED BY <1>1, <1>2, <1>3, PTL DEF P!Spec

-----------------------------------------------------------------------------
(* Identity: prekeys.                                                      *)

\* The prekey of a device lasts until the application must look after it again.
PrekeyInv ==
  /\ day \in Nat /\ checked \in [Device -> Nat]
  /\ prekey = [d \in Device |-> prekey[d]]
  /\ \A d \in Device : prekey[d] # I!NoPrekey =>
       /\ prekey[d].expires \in Nat
       /\ checked[d] + CheckEvery <= prekey[d].expires
       /\ day <= checked[d] + CheckEvery

\* The invariant holds at first.
LEMMA PrekeyInit == I!Init => PrekeyInv
BY DEF I!Init, PrekeyInv

\* The invariant is inductive.
LEMMA PrekeyKeeps == PrekeyInv /\ [I!Next]_(I!vars) => PrekeyInv'
<1> SUFFICES ASSUME PrekeyInv, [I!Next]_(I!vars) PROVE PrekeyInv'
  OBVIOUS
<1>1. ASSUME UNCHANGED <<day, prekey, checked>> PROVE PrekeyInv'
  BY <1>1 DEF PrekeyInv
<1>2. CASE I!Tick
  <2>1. /\ day' = day + 1 /\ UNCHANGED <<prekey, checked>>
        /\ \A d \in Device : prekey[d] # I!NoPrekey => day - checked[d] < CheckEvery
    BY <1>2 DEF I!Tick
  <2>2. \A d \in Device : checked[d] \in Nat
    BY DEF PrekeyInv
  <2> QED BY <2>1, <2>2, PrekeyAssumption DEF PrekeyInv
<1>3. ASSUME NEW d \in Device, I!CheckPrekey(d) PROVE PrekeyInv'
  <2>1. PICK k : k = I!GenerateSignedPrekey(d)
    OBVIOUS
  <2>2. k.expires = day + SPKRotation
    BY <2>1 DEF I!GenerateSignedPrekey, I!SignSignedPrekey
  <2>3. /\ checked' = [checked EXCEPT ![d] = day] /\ UNCHANGED day
        /\ prekey' = IF I!SPKNeedsRotation(prekey[d])
                     THEN [prekey EXCEPT ![d] = k] ELSE prekey
    BY <1>3, <2>1 DEF I!CheckPrekey
  <2>4. ASSUME NEW e \in Device, prekey'[e] # I!NoPrekey
        PROVE  /\ prekey'[e].expires \in Nat
               /\ checked'[e] + CheckEvery <= prekey'[e].expires
               /\ day' <= checked'[e] + CheckEvery
    <3>1. CASE e # d
      BY <2>3, <2>4, <3>1 DEF PrekeyInv
    <3>2. CASE e = d
      <4>1. checked'[e] = day /\ day \in Nat
        BY <2>3, <3>2 DEF PrekeyInv
      <4>2. CASE I!SPKNeedsRotation(prekey[d])
        <5>1. prekey'[e] = k
          BY <2>3, <3>2, <4>2 DEF PrekeyInv
        <5> QED BY <2>2, <2>3, <4>1, <5>1, PrekeyAssumption
      <4>3. CASE ~I!SPKNeedsRotation(prekey[d])
        <5>1. /\ prekey'[e] = prekey[e] /\ prekey[e] # I!NoPrekey
              /\ ~(day > prekey[e].expires - SPKOverlap)
          BY <2>3, <3>2, <4>3 DEF I!SPKNeedsRotation
        <5>2. prekey[e].expires \in Nat
          BY <5>1 DEF PrekeyInv
        <5> QED BY <2>3, <4>1, <5>1, <5>2, PrekeyAssumption
      <4> QED BY <4>2, <4>3
    <3> QED BY <3>1, <3>2
  <2>5. prekey' = [e \in Device |-> prekey'[e]]
    BY <2>3 DEF PrekeyInv
  <2> QED BY <2>3, <2>4, <2>5 DEF PrekeyInv
<1>4. CASE UNCHANGED I!vars
  BY <1>1, <1>4 DEF I!vars
<1>5. ASSUME NEW p \in Device, I!FetchIdentityDocument(p) PROVE PrekeyInv'
  BY <1>1, <1>5 DEF I!FetchIdentityDocument
<1>6. ASSUME NEW d \in Device, I!CreateDeviceCertificate(d) PROVE PrekeyInv'
  BY <1>1, <1>6 DEF I!CreateDeviceCertificate
<1>7. ASSUME NEW d \in Device, I!RegisterNewDevice(d) PROVE PrekeyInv'
  BY <1>1, <1>7 DEF I!RegisterNewDevice
<1>8. ASSUME NEW d \in Device, I!PublishIdentityDocument(d) PROVE PrekeyInv'
  BY <1>1, <1>8 DEF I!PublishIdentityDocument
<1>9. ASSUME NEW d \in Device, NEW more, NEW gone_, I!Update(d, more, gone_) PROVE PrekeyInv'
  BY <1>1, <1>9 DEF I!Update
<1> QED BY <1>2, <1>3, <1>4, <1>5, <1>6, <1>7, <1>8, <1>9 DEF I!Next

\* The invariant gives that prekeys last.
LEMMA PrekeyShown == PrekeyInv => I!PrekeyNeverLapses
BY PrekeyAssumption DEF PrekeyInv, I!PrekeyNeverLapses

-----------------------------------------------------------------------------
(* Identity: documents.                                                    *)

\* A sequence, of whatever its elements are.
IsSeq(s) == s \in Seq({s[i] : i \in DOMAIN s})

\* A sequence of elements of some set.
LEMMA SeqOf == ASSUME NEW T, NEW t \in Seq(T) PROVE IsSeq(t)
<1>1. Len(t) \in Nat /\ t = [i \in 1 .. Len(t) |-> t[i]] /\ DOMAIN t = 1 .. Len(t)
  OBVIOUS
<1>2. \A i \in 1 .. Len(t) : t[i] \in {t[j] : j \in DOMAIN t}
  BY <1>1
<1> QED BY <1>1, <1>2 DEF IsSeq

\* The elements of a sequence and of longer ones.
LEMMA SeqAppend ==
  ASSUME NEW s, IsSeq(s), NEW x
  PROVE  /\ Len(s) \in Nat /\ DOMAIN s = 1 .. Len(s)
         /\ IsSeq(Append(s, x)) /\ Len(Append(s, x)) = Len(s) + 1
         /\ Append(s, x)[Len(s) + 1] = x /\ \A i \in 1 .. Len(s) : Append(s, x)[i] = s[i]
<1> DEFINE T == {s[i] : i \in DOMAIN s} \cup {x}
           t == Append(s, x)
<1>1. s \in Seq(T) /\ Len(s) \in Nat /\ DOMAIN s = 1 .. Len(s) /\ x \in T
  BY DEF IsSeq
<1> HIDE DEF T
<1>2. /\ t \in Seq(T) /\ Len(t) = Len(s) + 1 /\ DOMAIN t = 1 .. Len(t)
      /\ t[Len(s) + 1] = x /\ \A i \in 1 .. Len(s) : t[i] = s[i]
  BY <1>1
<1> HIDE DEF t
<1>3. IsSeq(t)
  BY <1>2, SeqOf
<1> QED BY <1>1, <1>2, <1>3 DEF t

\* What is in two sequences joined is in one of them.
LEMMA SeqJoin ==
  ASSUME NEW s, NEW t, IsSeq(s), IsSeq(t)
  PROVE  /\ IsSeq(s \o t)
         /\ \A i \in DOMAIN (s \o t) : \/ \E j \in DOMAIN s : (s \o t)[i] = s[j]
                                       \/ \E j \in DOMAIN t : (s \o t)[i] = t[j]
<1> DEFINE T == {s[i] : i \in DOMAIN s} \cup {t[i] : i \in DOMAIN t}
           u == s \o t
<1>1. /\ s \in Seq(T) /\ t \in Seq(T) /\ Len(s) \in Nat /\ Len(t) \in Nat
      /\ DOMAIN s = 1 .. Len(s) /\ DOMAIN t = 1 .. Len(t)
  BY DEF IsSeq
<1>2. u \in Seq(T)
  <2> HIDE DEF T
  <2> QED BY <1>1
<1>3. \A i \in DOMAIN u : u[i] \in T
  <2> HIDE DEF T, u
  <2> QED BY <1>2
<1>4. IsSeq(u)
  <2> HIDE DEF T, u
  <2> QED BY <1>2, SeqOf
<1>5. ASSUME NEW i \in DOMAIN u
      PROVE  (\E j \in DOMAIN s : u[i] = s[j]) \/ (\E j \in DOMAIN t : u[i] = t[j])
  <2>1. PICK x : x = u[i]
    OBVIOUS
  <2>2. x \in T
    BY <1>3, <2>1
  <2> HIDE DEF u
  <2>3. (\E j \in DOMAIN s : x = s[j]) \/ (\E j \in DOMAIN t : x = t[j])
    BY <2>2
  <2> QED BY <2>1, <2>3
<1> QED BY <1>4, <1>5

\* The sequence number after another, and the n-th.
NextNumber(n) == IF (n + 1) % SequenceWord = 0 THEN 1 ELSE (n + 1) % SequenceWord
Number(n) == ((n - 1) % (SequenceWord - 1)) + 1

\* Division with a rest.
LEMMA Rest ==
  ASSUME NEW n \in Nat, NEW m \in Nat \ {0}
  PROVE  \E q \in Nat, r \in Nat : r < m /\ n = m * q + r /\ n % m = r
<1>1. n \div m \in Nat /\ n % m \in Nat /\ n % m < m /\ n = m * (n \div m) + (n % m)
  OBVIOUS
<1> QED BY <1>1

\* The rest is determined.
LEMMA RestUnique ==
  ASSUME NEW q \in Nat, NEW r \in Nat, NEW m \in Nat \ {0}, r < m
  PROVE  (m * q + r) % m = r
OBVIOUS

\* The rest of the number after.
LEMMA RestNext ==
  ASSUME NEW n \in Nat, NEW m \in Nat \ {0}
  PROVE  n % m \in 0 .. m - 1 /\ (n + 1) % m = IF n % m = m - 1 THEN 0 ELSE (n % m) + 1
<1>1. PICK q \in Nat, r \in Nat : r < m /\ n = m * q + r /\ n % m = r
  BY Rest
<1>2. CASE r = m - 1
  <2>1. n + 1 = m * (q + 1) + 0
    BY <1>1, <1>2
  <2>2. (m * (q + 1) + 0) % m = 0
    <3>1. q + 1 \in Nat /\ 0 \in Nat /\ 0 < m
      OBVIOUS
    <3> QED BY <3>1, RestUnique
  <2> QED BY <1>1, <1>2, <2>1, <2>2
<1>3. CASE r # m - 1
  <2>1. r + 1 \in Nat /\ r + 1 < m
    BY <1>1, <1>3
  <2>2. n + 1 = m * q + (r + 1)
    BY <1>1
  <2>3. (m * q + (r + 1)) % m = r + 1
    BY <2>1, RestUnique
  <2> QED BY <1>1, <1>3, <2>1, <2>2, <2>3
<1> QED BY <1>2, <1>3

\* Numbers follow each other, over the wrap too.
LEMMA NumberNext ==
  /\ NextNumber(0) = Number(1)
  /\ \A n \in Nat \ {0} : Number(n) \in Nat \ {0} /\ NextNumber(Number(n)) = Number(n + 1)
<1>1. PICK w \in Nat : w = SequenceWord /\ w > 1
  BY DocumentAssumption
<1>2. PICK m \in Nat \ {0} : m = w - 1 /\ m + 1 = w
  BY <1>1
<1>3. \A k \in 0 .. m : k % w = k
  <2> SUFFICES ASSUME NEW k \in 0 .. m PROVE k % w = k
    OBVIOUS
  <2>1. k \in Nat /\ w \in Nat \ {0} /\ k < w
    BY <1>1, <1>2
  <2> QED BY ONLY <2>1
<1>4. w % w = 0
  BY <1>1
<1>5. NextNumber(0) = Number(1)
  <2>1. 1 % w = 1 /\ 0 % m = 0
    BY <1>2, <1>3
  <2> QED BY <1>1, <1>2, <2>1 DEF NextNumber, Number
<1>6. ASSUME NEW n \in Nat \ {0}
      PROVE  Number(n) \in Nat \ {0} /\ NextNumber(Number(n)) = Number(n + 1)
  <2>1. PICK k \in Nat : k = n - 1 /\ n = k + 1
    BY <1>6
  <2>2. PICK r : r = k % m
    OBVIOUS
  <2>3. r \in 0 .. m - 1 /\ (k + 1) % m = IF r = m - 1 THEN 0 ELSE r + 1
    BY <2>2, RestNext
  <2>4. Number(n) = r + 1
    BY <1>1, <1>2, <2>1, <2>2 DEF Number
  <2>5. Number(n + 1) = ((k + 1) % m) + 1
    <3>1. (n + 1) - 1 = k + 1
      BY <2>1
    <3> QED BY <1>1, <1>2, <3>1 DEF Number
  <2>6. NextNumber(r + 1) = IF r = m - 1 THEN 1 ELSE r + 2
    <3>1. CASE r = m - 1
      <4>1. (r + 1) + 1 = w
        BY <1>2, <3>1
      <4> QED BY <1>1, <1>4, <3>1, <4>1 DEF NextNumber
    <3>2. CASE r # m - 1
      <4>1. (r + 1) + 1 \in 0 .. m /\ (r + 1) + 1 = r + 2 /\ r + 2 # 0
        BY <2>3, <3>2
      <4>2. (r + 2) % w = r + 2
        BY <1>3, <4>1
      <4> QED BY <1>1, <3>2, <4>1, <4>2 DEF NextNumber
    <3> QED BY <3>1, <3>2
  <2> QED BY <2>3, <2>4, <2>5, <2>6
<1> QED BY <1>5, <1>6

\* A certificate as one of the two packages makes it.
CertMade(c) ==
  /\ c.dev \in Device /\ c.created \in Nat \ {0} /\ c.expires = 0
  /\ c.sig = I!CertData(c) \/ c.sig = I!CertDataBE(c)

\* A document leads to an earlier one and has the number after its number; its
\* signature, prekeys and revocations verify, and its certificates were made.
DocMade(doc, i) ==
  /\ doc.prev \in 0 .. i - 1 /\ doc.updated \in Nat /\ doc.updated <= day
  /\ doc.seq = NextNumber(IF doc.prev = 0 THEN 0 ELSE docs[doc.prev].seq)
  /\ doc.sig = I!serializeForVerification(doc)
  /\ IsSeq(doc.devices) /\ \A j \in DOMAIN doc.devices : doc.devices[j] \in certs
  /\ \A j \in DOMAIN doc.prekeys : I!VerifySignedPrekey(doc.prekeys[j])
  /\ IsSeq(doc.revocations)
  /\ \A j \in DOMAIN doc.revocations : I!VerifyRevocation(doc.revocations[j])

\* The inductive invariant of documents.
DocInv ==
  /\ day \in Nat \ {0} /\ \A c \in certs : CertMade(c)
  /\ DOMAIN prekey = Device
  /\ \A d \in Device : prekey[d] # I!NoPrekey => I!VerifySignedPrekey(prekey[d])
  /\ IsSeq(docs) /\ known \in [Device -> 0 .. Len(docs)] /\ dht \in 0 .. Len(docs)
  /\ \A i \in 1 .. Len(docs) : DocMade(docs[i], i)

\* The identity package verifies its own certificates and no others.
LEMMA CertOrder ==
  ASSUME NEW c, CertMade(c)
  PROVE  I!VerifyDeviceCertificate(c) <=> c.sig[2][1] = "little"
<1>1. c.created # 0 /\ c.expires = 0
  BY DEF CertMade
<1>2. /\ I!CertData(c) = <<c.dev, <<"little", c.created>>, <<0>> >>
      /\ I!CertDataBE(c) = <<c.dev, <<"big", c.created>>, <<0>> >>
  BY <1>1 DEF I!CertData, I!CertDataBE, I!Bytes
<1>3. I!CertData(c)[2][1] = "little" /\ I!CertDataBE(c)[2][1] = "big"
  BY <1>2
<1>4. "little" # "big"
  OBVIOUS
<1> QED BY <1>3, <1>4 DEF CertMade, I!VerifyDeviceCertificate

\* Documents are accepted for a day if none of their certificates is of the
\* other package.
LEMMA VerifiesShown == DocInv => I!VerifiesForADay
<1> SUFFICES ASSUME DocInv, NEW i \in DOMAIN docs
             PROVE  I!VerifyIdentityDocument(docs[i]) <=>
                      /\ day - docs[i].updated <= Day
                      /\ \A j \in DOMAIN docs[i].devices : docs[i].devices[j].sig[2][1] = "little"
  BY DEF I!VerifiesForADay
<1>1. PICK doc : doc = docs[i]
  OBVIOUS
<1>2. i \in 1 .. Len(docs) /\ DocMade(doc, i)
  BY <1>1 DEF DocInv, IsSeq
<1>3. \A j \in DOMAIN doc.devices :
        I!VerifyDeviceCertificate(doc.devices[j]) <=> doc.devices[j].sig[2][1] = "little"
  BY <1>2, CertOrder DEF DocInv, DocMade
<1>4. (day - Day <= doc.updated /\ doc.updated <= day + Day) <=> day - doc.updated <= Day
  <2>1. PICK u \in Nat : u = doc.updated /\ u <= day
    BY <1>2 DEF DocMade
  <2>2. day \in Nat /\ Day \in Nat
    BY DocumentAssumption DEF DocInv
  <2>3. (day - Day <= u /\ u <= day + Day) <=> day - u <= Day
    BY <2>1, <2>2
  <2> QED BY <2>1, <2>3
<1>5. doc.seq # 0
  <2>1. \A n : NextNumber(n) # 0
    BY DEF NextNumber
  <2> QED BY <1>2, <2>1 DEF DocMade
<1>6. doc.sig = I!serializeForVerification(doc)
      /\ \A j \in DOMAIN doc.prekeys : I!VerifySignedPrekey(doc.prekeys[j])
  BY <1>2 DEF DocMade
<1>7. I!VerifyIdentityDocument(doc) <=>
        /\ day - doc.updated <= Day
        /\ \A j \in DOMAIN doc.devices : doc.devices[j].sig[2][1] = "little"
  BY <1>3, <1>4, <1>5, <1>6, Zenon DEF I!VerifyIdentityDocument
<1> QED BY <1>1, <1>7

\* What devices are told agrees.
LEMMA ActiveShown == DocInv => I!ActiveAgree
<1> SUFFICES ASSUME DocInv, NEW i \in DOMAIN docs
             PROVE  /\ {d \in Device : ~I!IsDeviceRevoked(docs[i], d)}
                         = {c.dev : c \in I!GetActiveDevices(docs[i])}
                    /\ \A j \in DOMAIN docs[i].revocations : I!VerifyRevocation(docs[i].revocations[j])
  BY DEF I!ActiveAgree
<1>1. PICK doc : doc = docs[i]
  OBVIOUS
<1>2. i \in 1 .. Len(docs) /\ DocMade(doc, i)
  BY <1>1 DEF DocInv, IsSeq
<1>3. \A j \in DOMAIN doc.devices : doc.devices[j].dev \in Device
  BY <1>2 DEF DocInv, DocMade, CertMade
<1>4. {d \in Device : ~I!IsDeviceRevoked(doc, d)} = {c.dev : c \in I!GetActiveDevices(doc)}
  BY <1>3 DEF I!IsDeviceRevoked, I!GetActiveDevices, I!Listed
<1> QED BY <1>1, <1>2, <1>4 DEF DocMade

\* The documents a document descends from, one step at a time.
LEMMA LineageStep ==
  ASSUME DocInv
  PROVE  \A p \in 0 .. Len(docs) :
           I!Lineage[p] = IF p = 0 THEN {} ELSE {p} \cup I!Lineage[docs[p].prev]
<1>1. PICK f : IsChain(f, docs, Len(docs))
  <2>1. Len(docs) \in 0 .. Len(docs) /\ Len(docs) \in Nat
    BY DEF DocInv, IsSeq
  <2>2. \A p \in 1 .. Len(docs) : docs[p].prev \in 0 .. p - 1
    BY DEF DocInv, DocMade
  <2> QED BY <2>1, <2>2, ChainExists
<1>2. IsChain(I!Lineage, docs, Len(docs))
  BY <1>1, Zenon DEF IsChain, I!Lineage, I!None
<1> QED BY <1>2, Zenon DEF IsChain

\* The number of a document counts them.
LEMMA CountShown == DocInv => I!SequenceCountsLineage
<1> SUFFICES ASSUME DocInv PROVE I!SequenceCountsLineage
  OBVIOUS
<1>0. Len(docs) \in Nat /\ DOMAIN docs = 1 .. Len(docs)
  BY DEF DocInv, IsSeq
<1> DEFINE Good(i) == /\ I!Lineage[i] \subseteq 1 .. i /\ IsFiniteSet(I!Lineage[i])
                      /\ Cardinality(I!Lineage[i]) \in Nat \ {0}
                      /\ docs[i].seq = Number(Cardinality(I!Lineage[i]))
           J == {i \in 1 .. Len(docs) : ~Good(i)}
<1>1. J = {}
  <2> SUFFICES ASSUME J # {} PROVE FALSE
    OBVIOUS
  <2>1. PICK j \in J : \A i \in J : j <= i
    <3>1. J \in SUBSET Nat
      BY <1>0
    <3> HIDE DEF J
    <3> QED BY <3>1, LeastIndex
  <2>2. j \in 1 .. Len(docs) /\ j \in 0 .. Len(docs) /\ j \in Nat /\ j # 0
    BY <1>0
  <2>3. PICK k : k = docs[j].prev
    OBVIOUS
  <2>4. k \in 0 .. j - 1 /\ docs[j].seq = NextNumber(IF k = 0 THEN 0 ELSE docs[k].seq)
    BY <2>2, <2>3 DEF DocInv, DocMade
  <2>5. PICK L, M : L = I!Lineage[j] /\ M = I!Lineage[k]
    OBVIOUS
  <2>6. L = {j} \cup M
    BY <2>2, <2>3, <2>5, LineageStep
  <2>7. CASE k = 0
    <3>1. M = {}
      <4>1. 0 \in 0 .. Len(docs)
        BY <1>0
      <4> QED BY <2>5, <2>7, <4>1, LineageStep
    <3>2. L = {j}
      BY <2>6, <3>1
    <3>3. IsFiniteSet(L) /\ Cardinality(L) = 1
      BY <3>2, FS_Singleton
    <3>4. docs[j].seq = Number(1) /\ L \subseteq 1 .. j
      BY <2>2, <2>4, <2>7, <3>2, NumberNext
    <3>5. Good(j)
      BY <2>5, <3>3, <3>4
    <3> QED BY <3>5
  <2>8. CASE k # 0
    <3>1. k \in 1 .. Len(docs) /\ k < j /\ k \in Nat
      BY <1>0, <2>2, <2>4, <2>8
    <3>2. k \notin J
      <4> HIDE DEF J
      <4> QED BY <2>1, <2>2, <3>1
    <3>3. PICK n : n = Cardinality(M)
      OBVIOUS
    <3>4. /\ M \subseteq 1 .. k /\ IsFiniteSet(M) /\ n \in Nat \ {0} /\ docs[k].seq = Number(n)
      BY <2>5, <3>1, <3>2, <3>3
    <3>5. j \notin M /\ L \subseteq 1 .. j
      <4>1. \A x \in 1 .. k : x # j /\ x \in 1 .. j
        BY <2>2, <3>1
      <4>2. j \in 1 .. j
        BY <2>2
      <4> QED BY <2>6, <3>4, <4>1, <4>2
    <3>6. IsFiniteSet(L) /\ Cardinality(L) = n + 1
      <4>1. L = M \cup {j}
        BY <2>6
      <4> QED BY <3>3, <3>4, <3>5, <4>1, FS_AddElement
    <3>7. docs[j].seq = Number(n + 1) /\ n + 1 \in Nat \ {0}
      <4>1. docs[j].seq = NextNumber(Number(n))
        BY <2>4, <2>8, <3>4
      <4>2. NextNumber(Number(n)) = Number(n + 1)
        BY <3>4, NumberNext, Zenon
      <4>3. n + 1 \in Nat \ {0}
        BY <3>4
      <4> QED BY <4>1, <4>2, <4>3, Zenon
    <3>8. Good(j)
      BY <2>5, <3>5, <3>6, <3>7
    <3> QED BY <3>8
  <2> QED BY <2>7, <2>8
<1>2. \A i \in DOMAIN docs : docs[i].seq = Number(Cardinality(I!Lineage[i]))
  BY <1>0, <1>1
<1>3. \A X : I!Cardinality(X) = Cardinality(X)
  BY DEF I!Cardinality, Cardinality
<1> QED BY <1>2, <1>3 DEF I!SequenceCountsLineage, Number

\* The invariant holds at first.
LEMMA DocInit == I!Init => DocInv
<1> SUFFICES ASSUME I!Init PROVE DocInv
  OBVIOUS
<1>1. /\ day = 1 /\ certs = {} /\ docs = <<>> /\ dht = 0
      /\ prekey = [d \in Device |-> I!NoPrekey] /\ known = [p \in Device |-> 0]
  BY DEF I!Init, I!None
<1>2. IsSeq(docs) /\ Len(docs) = 0
  BY <1>1 DEF IsSeq
<1>3. known \in [Device -> 0 .. Len(docs)] /\ dht \in 0 .. Len(docs)
  BY <1>1, <1>2
<1>4. \A i : i \notin 1 .. Len(docs)
  BY <1>2
<1> QED BY <1>1, <1>2, <1>3, <1>4 DEF DocInv

\* Documents stay as they were made.
LEMMA DocStays ==
  ASSUME NEW doc, NEW i \in Nat, DocMade(doc, i), i - 1 <= Len(docs), Len(docs) \in Nat,
         certs \subseteq certs', day \in Nat, day' \in {day, day + 1},
         \A j \in 1 .. Len(docs) : docs'[j] = docs[j]
  PROVE  DocMade(doc, i)'
<1>1. doc.updated \in Nat /\ doc.updated <= day'
  BY DEF DocMade
<1>2. (IF doc.prev = 0 THEN 0 ELSE docs'[doc.prev].seq)
        = (IF doc.prev = 0 THEN 0 ELSE docs[doc.prev].seq)
  <2>1. doc.prev = 0 \/ doc.prev \in 1 .. Len(docs)
    BY DEF DocMade
  <2> QED BY <2>1
<1>3. doc.seq = NextNumber(IF doc.prev = 0 THEN 0 ELSE docs'[doc.prev].seq)
  <2>1. doc.seq = NextNumber(IF doc.prev = 0 THEN 0 ELSE docs[doc.prev].seq)
    BY DEF DocMade
  <2> QED BY <1>2, <2>1
<1>4. I!serializeForVerification(doc)' = I!serializeForVerification(doc)
  BY DEF I!serializeForVerification
<1> QED BY <1>1, <1>3, <1>4
        DEF DocMade, I!VerifySignedPrekey, I!PrekeyData, I!Bytes, I!VerifyRevocation

\* Steps that make no document.
LEMMA DocsStay ==
  ASSUME DocInv, UNCHANGED docs, day' \in {day, day + 1}, certs \subseteq certs',
         \A c \in certs' : CertMade(c), DOMAIN prekey' = Device,
         \A d \in Device : prekey'[d] # I!NoPrekey => I!VerifySignedPrekey(prekey'[d]),
         known' \in [Device -> 0 .. Len(docs)], dht' \in 0 .. Len(docs)
  PROVE  DocInv'
<1>1. day \in Nat /\ day' \in Nat \ {0} /\ Len(docs) \in Nat
  BY DEF DocInv, IsSeq
<1>2. ASSUME NEW i \in 1 .. Len(docs) PROVE DocMade(docs[i], i)'
  <2>1. PICK doc : doc = docs[i]
    OBVIOUS
  <2>2. DocMade(doc, i) /\ i \in Nat /\ i - 1 <= Len(docs)
    BY <1>1, <2>1 DEF DocInv
  <2>3. DocMade(doc, i)'
    BY <1>1, <2>2, DocStays
  <2> QED BY <2>1, <2>3
<1>3. \A c \in certs' : CertMade(c)'
  BY Zenon DEF CertMade, I!CertData, I!CertDataBE, I!Bytes
<1>4. \A d \in Device : prekey'[d] # I!NoPrekey => I!VerifySignedPrekey(prekey[d])'
  BY DEF I!VerifySignedPrekey, I!PrekeyData, I!Bytes
<1>5. IsSeq(docs)' /\ I!NoPrekey' = I!NoPrekey
  BY DEF DocInv, IsSeq, I!NoPrekey
<1> QED BY <1>1, <1>2, <1>3, <1>4, <1>5 DEF DocInv

\* A document that is signed once more, with its revocations.
Resigned(n, p, devices, prekeys, revocations) ==
  I!SignIdentityDocument([I!CreateIdentityDocument(n, p, devices, prekeys)
                            EXCEPT !.revocations = revocations])

\* The fields of such a document.
LEMMA UpdateMakes ==
  ASSUME NEW n, NEW p, NEW devices, NEW prekeys, NEW revocations, NEW x,
         x = Resigned(n, p, devices, prekeys, revocations)
  PROVE  /\ x.seq = NextNumber(n) /\ x.prev = p /\ x.updated = day
         /\ x.devices = devices /\ x.prekeys = prekeys /\ x.revocations = revocations
         /\ x.sig = I!serializeForVerification(x)
<1>1. PICK q, t : q = NextNumber(n) /\ t = IF n > 0 THEN n ELSE day
  OBVIOUS
<1>2. PICK g : I!CreateIdentityDocument(n, p, devices, prekeys) =
                 [seq |-> q, prev |-> p, created |-> t, updated |-> day, devices |-> devices,
                  prekeys |-> prekeys, revocations |-> <<>>, sig |-> g]
  <2>1. PICK a : a = [seq |-> q, prev |-> p, created |-> t, updated |-> day, devices |-> devices,
                      prekeys |-> prekeys, revocations |-> <<>>, sig |-> <<>>]
    OBVIOUS
  <2>2. PICK g : g = I!serializeDocumentForSigning(a)
    OBVIOUS
  <2>3. I!CreateIdentityDocument(n, p, devices, prekeys) = [a EXCEPT !.sig = g]
    BY <1>1, <2>1, <2>2 DEF I!CreateIdentityDocument, I!SignIdentityDocument, NextNumber
  <2> QED BY <2>1, <2>3
<1>3. PICK b : b = [I!CreateIdentityDocument(n, p, devices, prekeys) EXCEPT !.revocations = revocations]
  OBVIOUS
<1>4. b = [seq |-> q, prev |-> p, created |-> t, updated |-> day, devices |-> devices,
           prekeys |-> prekeys, revocations |-> revocations, sig |-> g]
  BY <1>2, <1>3
<1>5. PICK h : h = I!serializeDocumentForSigning(b)
  OBVIOUS
<1>6. x = [b EXCEPT !.sig = h]
  BY <1>3, <1>5 DEF Resigned, I!SignIdentityDocument
<1>7. /\ x.seq = b.seq /\ x.prev = b.prev /\ x.created = b.created /\ x.updated = b.updated
      /\ x.devices = b.devices /\ x.prekeys = b.prekeys /\ x.revocations = b.revocations
      /\ x.sig = h
  BY <1>4, <1>6
<1>8. h = I!serializeForVerification(x)
  BY <1>5, <1>7, Zenon DEF I!serializeDocumentForSigning, I!serializeForVerification
<1>9. /\ b.seq = q /\ b.prev = p /\ b.updated = day /\ b.devices = devices /\ b.prekeys = prekeys
      /\ b.revocations = revocations
  BY <1>4
<1> QED BY <1>1, <1>7, <1>8, <1>9, Zenon

\* A device makes a document.
LEMMA DocUpdated ==
  ASSUME DocInv, NEW d \in Device, NEW more, NEW lost, I!Update(d, more, lost),
         IsSeq(more), \A j \in DOMAIN more : more[j] \in certs,
         IsSeq(lost), \A j \in DOMAIN lost : I!VerifyRevocation(lost[j])
  PROVE  DocInv'
<1>0. Len(docs) \in Nat /\ DOMAIN docs = 1 .. Len(docs) /\ day \in Nat
  BY DEF DocInv, IsSeq
<1>1. PICK p : p = known[d]
  OBVIOUS
<1>2. p \in 0 .. Len(docs)
  BY <1>1 DEF DocInv
<1>3. PICK old : old = IF p = 0 THEN [devices |-> <<>>, revocations |-> <<>>] ELSE docs[p]
  OBVIOUS
<1>4. PICK ks : ks = IF prekey[d] = I!NoPrekey THEN <<>> ELSE <<prekey[d]>>
  OBVIOUS
<1>5. PICK n : n = IF p = 0 THEN 0 ELSE docs[p].seq
  OBVIOUS
<1>6. PICK x : x = Resigned(n, p, old.devices \o more, ks, old.revocations \o lost)
  OBVIOUS
<1>7. /\ docs' = Append(docs, x) /\ known' = [known EXCEPT ![d] = Len(docs')]
      /\ UNCHANGED <<day, certs, prekey, dht>>
  BY <1>1, <1>3, <1>4, <1>5, <1>6, Zenon
     DEF Resigned, I!Update, I!None, I!PrevSequence, I!ComputeDocumentHash
<1>8. /\ x.seq = NextNumber(n) /\ x.prev = p /\ x.updated = day
      /\ x.devices = old.devices \o more /\ x.prekeys = ks /\ x.revocations = old.revocations \o lost
      /\ x.sig = I!serializeForVerification(x)
  <2>1. PICK v, w : v = old.devices \o more /\ w = old.revocations \o lost
    OBVIOUS
  <2>2. x = Resigned(n, p, v, ks, w)
    BY <1>6, <2>1
  <2>3. /\ x.seq = NextNumber(n) /\ x.prev = p /\ x.updated = day
        /\ x.devices = v /\ x.prekeys = ks /\ x.revocations = w
        /\ x.sig = I!serializeForVerification(x)
    BY <2>2, UpdateMakes
  <2> QED BY <2>1, <2>3
<1>9. /\ IsSeq(old.devices) /\ \A j \in DOMAIN old.devices : old.devices[j] \in certs
      /\ IsSeq(old.revocations) /\ \A j \in DOMAIN old.revocations : I!VerifyRevocation(old.revocations[j])
  <2>1. CASE p = 0
    <3>1. old.devices = <<>> /\ old.revocations = <<>>
      BY <1>3, <2>1
    <3>2. IsSeq(<<>>) /\ DOMAIN <<>> = {}
      BY DEF IsSeq
    <3> QED BY <3>1, <3>2
  <2>2. CASE p # 0
    <3>1. p \in 1 .. Len(docs) /\ old = docs[p]
      BY <1>0, <1>2, <1>3, <2>2
    <3> QED BY <3>1 DEF DocInv, DocMade
  <2> QED BY <2>1, <2>2
<1>10. /\ IsSeq(x.devices) /\ \A j \in DOMAIN x.devices : x.devices[j] \in certs
  <2>1. PICK v : v = old.devices \o more
    OBVIOUS
  <2>2. /\ IsSeq(v)
        /\ \A i \in DOMAIN v : \/ \E j \in DOMAIN old.devices : v[i] = old.devices[j]
                               \/ \E j \in DOMAIN more : v[i] = more[j]
    BY <1>9, <2>1, SeqJoin
  <2>3. \A i \in DOMAIN v : v[i] \in certs
    BY <1>9, <2>2, Zenon
  <2> QED BY <1>8, <2>1, <2>2, <2>3
<1>11. /\ IsSeq(x.revocations)
       /\ \A j \in DOMAIN x.revocations : I!VerifyRevocation(x.revocations[j])
  <2>1. PICK v : v = old.revocations \o lost
    OBVIOUS
  <2>2. /\ IsSeq(v)
        /\ \A i \in DOMAIN v : \/ \E j \in DOMAIN old.revocations : v[i] = old.revocations[j]
                               \/ \E j \in DOMAIN lost : v[i] = lost[j]
    BY <1>9, <2>1, SeqJoin
  <2>3. \A i \in DOMAIN v : I!VerifyRevocation(v[i])
    BY <1>9, <2>2, Zenon
  <2> QED BY <1>8, <2>1, <2>2, <2>3
<1>12. \A j \in DOMAIN x.prekeys : I!VerifySignedPrekey(x.prekeys[j])
  <2>1. CASE prekey[d] = I!NoPrekey
    <3>1. x.prekeys = <<>> /\ DOMAIN <<>> = {}
      BY <1>4, <1>8, <2>1
    <3> QED BY <3>1
  <2>2. CASE prekey[d] # I!NoPrekey
    <3>1. PICK k : k = prekey[d]
      OBVIOUS
    <3>2. x.prekeys = <<k>> /\ I!VerifySignedPrekey(k)
      BY <1>4, <1>8, <2>2, <3>1 DEF DocInv
    <3>3. \A j \in DOMAIN <<k>> : <<k>>[j] = k
      OBVIOUS
    <3> QED BY <3>2, <3>3
  <2> QED BY <2>1, <2>2
<1>13. PICK m : m = Len(docs) /\ m \in Nat
  BY <1>0
<1>14. /\ IsSeq(docs') /\ Len(docs') = m + 1 /\ docs'[m + 1] = x
       /\ \A i \in 1 .. m : docs'[i] = docs[i]
  BY <1>7, <1>13, SeqAppend DEF DocInv
<1>15. DocMade(x, m + 1)
  <2>1. x.prev \in 0 .. (m + 1) - 1 /\ x.updated \in Nat /\ x.updated <= day
    BY <1>0, <1>2, <1>8, <1>13
  <2>2. x.seq = NextNumber(IF x.prev = 0 THEN 0 ELSE docs[x.prev].seq)
    BY <1>5, <1>8, Zenon
  <2> QED BY <1>8, <1>10, <1>11, <1>12, <2>1, <2>2, Zenon DEF DocMade
<1>16. ASSUME NEW i \in 1 .. m + 1 PROVE DocMade(docs[i], i)'
  <2>1. PICK doc : doc = docs'[i]
    OBVIOUS
  <2>2. i \in Nat /\ i - 1 <= Len(docs) /\ (i \in 1 .. m \/ i = m + 1)
    BY <1>13
  <2>3. DocMade(doc, i)
    BY <1>13, <1>14, <1>15, <2>1, <2>2 DEF DocInv
  <2>4. DocMade(doc, i)'
    BY <1>0, <1>7, <1>13, <1>14, <2>2, <2>3, DocStays
  <2> QED BY <2>1, <2>4
<1>17. known' \in [Device -> 0 .. m + 1] /\ dht' \in 0 .. m + 1
  <2>1. known \in [Device -> 0 .. m] /\ dht \in 0 .. m
    BY <1>13 DEF DocInv
  <2>2. m + 1 \in 0 .. m + 1 /\ \A k \in 0 .. m : k \in 0 .. m + 1
    BY <1>13
  <2>3. known' = [known EXCEPT ![d] = m + 1]
    BY <1>7, <1>14
  <2> QED BY <1>7, <2>1, <2>2, <2>3
<1>18. \A c \in certs' : CertMade(c)'
  <2>1. \A c \in certs' : CertMade(c)
    BY <1>7 DEF DocInv
  <2> QED BY <2>1, Zenon DEF CertMade, I!CertData, I!CertDataBE, I!Bytes
<1>19. /\ DOMAIN prekey' = Device
       /\ \A e \in Device : prekey'[e] # I!NoPrekey => I!VerifySignedPrekey(prekey[e])'
  BY <1>7 DEF DocInv, I!VerifySignedPrekey, I!PrekeyData, I!Bytes
<1>20. day' \in Nat \ {0} /\ IsSeq(docs)' /\ I!NoPrekey' = I!NoPrekey
  BY <1>7, <1>14 DEF DocInv, IsSeq, I!NoPrekey
<1>21. Len(docs)' = m + 1
  BY <1>14
<1> QED BY <1>16, <1>17, <1>18, <1>19, <1>20, <1>21 DEF DocInv

\* A certificate of one package or the other is made.
LEMMA CertAdded ==
  ASSUME DocInv, NEW d \in Device, NEW c,
         c = I!SignDeviceCertificate(I!Cert(d)) \/ c = I!signDeviceCertificate(I!Cert(d))
  PROVE  CertMade(c)
<1>1. PICK a : a = [dev |-> d, created |-> day, expires |-> 0, sig |-> <<>>]
  OBVIOUS
<1>2. I!Cert(d) = a
  BY <1>1 DEF I!Cert
<1>3. PICK g : g \in {I!CertData(a), I!CertDataBE(a)} /\ c = [a EXCEPT !.sig = g]
  BY <1>2 DEF I!SignDeviceCertificate, I!signDeviceCertificate
<1>4. c.dev = a.dev /\ c.created = a.created /\ c.expires = a.expires /\ c.sig = g
  BY <1>1, <1>3
<1>5. I!CertData(c) = I!CertData(a) /\ I!CertDataBE(c) = I!CertDataBE(a)
  BY <1>4, Zenon DEF I!CertData, I!CertDataBE
<1>6. a.dev \in Device /\ a.created \in Nat \ {0} /\ a.expires = 0
  BY <1>1 DEF DocInv
<1> QED BY <1>3, <1>4, <1>5, <1>6 DEF CertMade

\* The invariant is inductive.
LEMMA DocKeeps == DocInv /\ [I!Next]_(I!vars) => DocInv'
<1> SUFFICES ASSUME DocInv, [I!Next]_(I!vars) PROVE DocInv'
  OBVIOUS
<1>0. /\ day \in Nat /\ \A c \in certs : CertMade(c)
      /\ DOMAIN prekey = Device
      /\ \A d \in Device : prekey[d] # I!NoPrekey => I!VerifySignedPrekey(prekey[d])
      /\ known \in [Device -> 0 .. Len(docs)] /\ dht \in 0 .. Len(docs)
  BY DEF DocInv
<1>1. CASE I!Tick
  <2>1. day' = day + 1 /\ UNCHANGED <<certs, prekey, docs, dht, known>>
    BY <1>1 DEF I!Tick
  <2> QED BY <1>0, <2>1, DocsStay
<1>2. ASSUME NEW p \in Device, I!FetchIdentityDocument(p) PROVE DocInv'
  <2>1. known' = [known EXCEPT ![p] = dht] /\ UNCHANGED <<day, certs, prekey, docs, dht>>
    BY <1>2 DEF I!FetchIdentityDocument
  <2>2. known' \in [Device -> 0 .. Len(docs)]
    BY <1>0, <2>1
  <2> QED BY <1>0, <2>1, <2>2, DocsStay
<1>3. ASSUME NEW d \in Device, I!CreateDeviceCertificate(d) \/ I!RegisterNewDevice(d) PROVE DocInv'
  <2>1. PICK c : /\ c = I!SignDeviceCertificate(I!Cert(d)) \/ c = I!signDeviceCertificate(I!Cert(d))
                 /\ certs' = certs \cup {c} /\ UNCHANGED <<day, prekey, docs, dht, known>>
    BY <1>3 DEF I!CreateDeviceCertificate, I!RegisterNewDevice
  <2>2. \A e \in certs' : CertMade(e)
    BY <1>0, <2>1, CertAdded
  <2> QED BY <1>0, <2>1, <2>2, DocsStay
<1>4. ASSUME NEW d \in Device, I!CheckPrekey(d) PROVE DocInv'
  <2>1. PICK k : k = I!GenerateSignedPrekey(d)
    OBVIOUS
  <2>2. I!VerifySignedPrekey(k)
    <3>1. PICK a : a = [dev |-> d, created |-> day, expires |-> day + SPKRotation, sig |-> <<>>]
      OBVIOUS
    <3>2. PICK g : g = I!PrekeyData(a)
      OBVIOUS
    <3>3. k = [a EXCEPT !.sig = g]
      BY <2>1, <3>1, <3>2 DEF I!GenerateSignedPrekey, I!SignSignedPrekey
    <3>4. k.dev = a.dev /\ k.created = a.created /\ k.expires = a.expires /\ k.sig = g
      BY <3>1, <3>3
    <3>5. I!PrekeyData(k) = I!PrekeyData(a)
      BY <3>4, Zenon DEF I!PrekeyData
    <3> QED BY <3>2, <3>4, <3>5 DEF I!VerifySignedPrekey
  <2>3. /\ UNCHANGED <<day, certs, docs, dht, known>>
        /\ prekey' = prekey \/ prekey' = [prekey EXCEPT ![d] = k]
    BY <1>4, <2>1 DEF I!CheckPrekey
  <2>4. DOMAIN prekey' = Device /\ \A e \in Device : prekey'[e] = prekey[e] \/ prekey'[e] = k
    BY <1>0, <2>3
  <2>5. \A e \in Device : prekey'[e] # I!NoPrekey => I!VerifySignedPrekey(prekey'[e])
    BY <1>0, <2>2, <2>4, Zenon
  <2> QED BY <1>0, <2>3, <2>4, <2>5, DocsStay
<1>5. ASSUME NEW d \in Device, I!PublishIdentityDocument(d) PROVE DocInv'
  <2>1. dht' = known[d] /\ UNCHANGED <<day, certs, prekey, docs, known>>
    BY <1>5 DEF I!PublishIdentityDocument
  <2>2. dht' \in 0 .. Len(docs)
    BY <1>0, <2>1
  <2> QED BY <1>0, <2>1, <2>2, DocsStay
<1>6. ASSUME NEW d \in Device, NEW c \in certs, I!Update(d, <<c>>, <<>>) PROVE DocInv'
  <2>1. IsSeq(<<c>>) /\ IsSeq(<<>>) /\ DOMAIN <<>> = {}
    BY DEF IsSeq
  <2>2. \A j \in DOMAIN <<c>> : <<c>>[j] \in certs
    OBVIOUS
  <2> QED BY <1>6, <2>1, <2>2, DocUpdated
<1>7. ASSUME NEW d \in Device, NEW g \in Device, I!Update(d, <<>>, <<I!RevokeDevice(g)>>) PROVE DocInv'
  <2>1. PICK r : r = I!RevokeDevice(g)
    OBVIOUS
  <2>2. I!VerifyRevocation(r)
    BY <2>1 DEF I!RevokeDevice, I!VerifyRevocation
  <2>3. IsSeq(<<r>>) /\ IsSeq(<<>>) /\ DOMAIN <<>> = {}
    BY DEF IsSeq
  <2>4. \A j \in DOMAIN <<r>> : <<r>>[j] = r
    OBVIOUS
  <2> QED BY <1>7, <2>1, <2>2, <2>3, <2>4, DocUpdated
<1>8. CASE UNCHANGED I!vars
  <2>1. UNCHANGED <<day, certs, prekey, docs, dht, known>>
    BY <1>8 DEF I!vars
  <2> QED BY <1>0, <2>1, DocsStay
<1> QED BY <1>1, <1>2, <1>3, <1>4, <1>5, <1>6, <1>7, <1>8 DEF I!Next

\* However the devices of an identity make, publish and fetch documents: each is
\* accepted for a day, unless it lists a device of the multidevice package; its
\* number counts the documents it descends from, on both sides of a fork and over
\* the wrap; its active devices are those that are not revoked, and its
\* revocations verify; and a device whose application looks after its prekey
\* never is without a valid one (VerifyIdentityDocument, CreateIdentityDocument,
\* IsDeviceRevoked, GetActiveDevices, SPKNeedsRotation).
THEOREM DocumentsKept == I!Spec => []DocumentsSound
<1>1. I!Init => PrekeyInv /\ DocInv
  BY PrekeyInit, DocInit
<1>2. PrekeyInv /\ DocInv /\ [I!Next]_(I!vars) => PrekeyInv' /\ DocInv'
  BY PrekeyKeeps, DocKeeps
<1>3. PrekeyInv /\ DocInv => DocumentsSound
  BY PrekeyShown, VerifiesShown, CountShown, ActiveShown DEF DocumentsSound, I!DocumentsSound
<1> QED BY <1>1, <1>2, <1>3, PTL DEF I!Spec

-----------------------------------------------------------------------------
(* Codecs.                                                                 *)

\* A codec as the negotiator has it before it is selected.
Supported(name, prio, rate) == [name |-> name, prio |-> prio, rate |-> rate, payload |-> 0]

\* The codecs of a kind have distinct names of that kind, a clock rate, and are
\* in the order of their priority.
LEMMA Capabilities ==
  ASSUME NEW k \in K!Kind, NEW L, L = K!DefaultCapabilities[k]
  PROVE  /\ DOMAIN L \subseteq Nat
         /\ \A i \in DOMAIN L :
              /\ L[i].rate # 0 /\ L[i].prio \in Nat
              /\ K!isVideoCodec(L[i].name) <=> k = "video"
              /\ L[i] = [name |-> L[i].name, prio |-> L[i].prio, rate |-> L[i].rate,
                         payload |-> L[i].payload]
         /\ \A i, j \in DOMAIN L : i < j => L[i].prio >= L[j].prio /\ L[i].name # L[j].name
<1>1. CASE k = "audio"
  <2>1. L = <<Supported("opus", 100, 48000), Supported("PCMU", 50, 8000), Supported("PCMA", 50, 8000)>>
    BY <1>1 DEF K!DefaultCapabilities, K!Codec, Supported
  <2>2. /\ DOMAIN L = 1 .. 3
        /\ L[1] = Supported("opus", 100, 48000) /\ L[2] = Supported("PCMU", 50, 8000)
        /\ L[3] = Supported("PCMA", 50, 8000)
    BY <2>1
  <2>3. \A i \in 1 .. 3 : i = 1 \/ i = 2 \/ i = 3
    OBVIOUS
  <2>4. ASSUME NEW i \in DOMAIN L
        PROVE  /\ L[i].rate # 0 /\ L[i].prio \in Nat
               /\ K!isVideoCodec(L[i].name) <=> k = "video"
               /\ L[i] = [name |-> L[i].name, prio |-> L[i].prio, rate |-> L[i].rate,
                          payload |-> L[i].payload]
    BY <1>1, <2>2, <2>3 DEF Supported, K!isVideoCodec
  <2>5. ASSUME NEW i \in DOMAIN L, NEW j \in DOMAIN L, i < j
        PROVE  L[i].prio >= L[j].prio /\ L[i].name # L[j].name
    BY <2>2, <2>3, <2>5 DEF Supported
  <2> QED BY <2>2, <2>4, <2>5
<1>2. CASE k = "video"
  <2>1. L = <<Supported("VP9", 100, 90000), Supported("VP8", 90, 90000), Supported("H264", 70, 90000),
              Supported("AV1", 60, 90000)>>
    BY <1>2 DEF K!DefaultCapabilities, K!Codec, Supported
  <2>2. /\ DOMAIN L = 1 .. 4
        /\ L[1] = Supported("VP9", 100, 90000) /\ L[2] = Supported("VP8", 90, 90000)
        /\ L[3] = Supported("H264", 70, 90000) /\ L[4] = Supported("AV1", 60, 90000)
    BY <2>1
  <2>3. \A i \in 1 .. 4 : i = 1 \/ i = 2 \/ i = 3 \/ i = 4
    OBVIOUS
  <2>4. ASSUME NEW i \in DOMAIN L
        PROVE  /\ L[i].rate # 0 /\ L[i].prio \in Nat
               /\ K!isVideoCodec(L[i].name) <=> k = "video"
               /\ L[i] = [name |-> L[i].name, prio |-> L[i].prio, rate |-> L[i].rate,
                          payload |-> L[i].payload]
    BY <1>2, <2>2, <2>3 DEF Supported, K!isVideoCodec
  <2>5. ASSUME NEW i \in DOMAIN L, NEW j \in DOMAIN L, i < j
        PROVE  L[i].prio >= L[j].prio /\ L[i].name # L[j].name
    BY <2>2, <2>3, <2>5 DEF Supported
  <2> QED BY <2>2, <2>4, <2>5
<1> QED BY <1>1, <1>2 DEF K!Kind

\* The matches of local codecs and lines, and which goes before which.
Common(L, remote) == {p \in (DOMAIN L) \X (DOMAIN remote) : L[p[1]].name = remote[p[2]].name}
Precedes(L, p, q) ==
  \/ L[p[1]].prio > L[q[1]].prio
  \/ L[p[1]].prio = L[q[1]].prio /\ p[1] < q[1]
  \/ p[1] = q[1] /\ p[2] <= q[2]

\* A codec is selected: the first local one that has a line, with its first line.
LEMMA SelectsBest ==
  ASSUME NEW k \in K!Kind, NEW L, L = K!DefaultCapabilities[k],
         NEW remote, DOMAIN remote \subseteq Nat, Common(L, remote) # {}
  PROVE  \E i \in DOMAIN L : \E l \in DOMAIN remote :
           /\ L[i].name = remote[l].name
           /\ K!selectBestCodec(k, remote) = [L[i] EXCEPT !.payload = remote[l].payload]
           /\ \A j \in DOMAIN L : \A m \in DOMAIN remote :
                L[j].name = remote[m].name => i <= j /\ (i = j => l <= m)
<1> DEFINE Picked == Common(L, remote)
<1>0. /\ DOMAIN L \subseteq Nat /\ \A i \in DOMAIN L : L[i].prio \in Nat
      /\ \A i, j \in DOMAIN L : i < j => L[i].prio >= L[j].prio
  BY Capabilities
<1>1. \E p \in Picked : \A q \in Picked : Precedes(L, p, q)
  <2> DEFINE A == {p[1] : p \in Picked}
  <2>1. PICK a \in A : \A b \in A : a <= b
    <3>1. A \in SUBSET Nat /\ A # {}
      BY <1>0 DEF Common
    <3> HIDE DEF A
    <3> QED BY <3>1, LeastIndex
  <2> DEFINE B == {l \in DOMAIN remote : <<a, l>> \in Picked}
  <2>2. PICK l \in B : \A m \in B : l <= m
    <3>1. B \in SUBSET Nat /\ B # {}
      BY DEF Common
    <3> HIDE DEF B
    <3> QED BY <3>1, LeastIndex
  <2>3. <<a, l>> \in Picked /\ a \in DOMAIN L /\ a \in Nat
    BY <1>0 DEF Common
  <2>4. ASSUME NEW q \in Picked PROVE Precedes(L, <<a, l>>, q)
    <3>1. PICK b, m : q = <<b, m>> /\ b \in DOMAIN L /\ m \in DOMAIN remote /\ b \in Nat
      BY <1>0 DEF Common
    <3>2. a <= b
      <4>1. b \in A
        BY <3>1
      <4> QED BY <2>1, <4>1
    <3>3. CASE a = b
      <4>1. l <= m
        <5>1. m \in B
          BY <3>1, <3>3
        <5> QED BY <2>2, <5>1
      <4> QED BY <3>1, <3>3, <4>1 DEF Precedes
    <3>4. CASE a # b
      <4>1. a < b
        BY <2>3, <3>1, <3>2, <3>4
      <4>2. L[a].prio >= L[b].prio /\ L[a].prio \in Nat /\ L[b].prio \in Nat
        BY <1>0, <2>3, <3>1, <4>1
      <4>3. L[a].prio > L[b].prio \/ L[a].prio = L[b].prio
        BY <4>2
      <4> QED BY <3>1, <4>1, <4>3 DEF Precedes
    <3> QED BY <3>3, <3>4
  <2> QED BY <2>3, <2>4
<1> DEFINE M == K!DefaultCapabilities[k]
           b == CHOOSE p \in Common(M, remote) : \A q \in Common(M, remote) : Precedes(M, p, q)
<1>2. K!selectBestCodec(k, remote) =
        IF Common(M, remote) = {} THEN K!None
        ELSE [M[b[1]] EXCEPT !.payload = remote[b[2]].payload]
  BY DEF K!selectBestCodec, Common, Precedes
<1>3. b \in Picked /\ \A q \in Picked : Precedes(L, b, q)
  <2> HIDE DEF M
  <2>1. L = M
    BY DEF M
  <2>2. \E p \in Common(M, remote) : \A q \in Common(M, remote) : Precedes(M, p, q)
    BY <1>1, <2>1
  <2>3. b \in Common(M, remote) /\ \A q \in Common(M, remote) : Precedes(M, b, q)
    BY <2>2
  <2> QED BY <2>1, <2>3
<1> HIDE DEF b
<1>4. K!selectBestCodec(k, remote) = [L[b[1]] EXCEPT !.payload = remote[b[2]].payload]
  <2>1. Common(M, remote) # {}
    OBVIOUS
  <2> QED BY <1>2, <2>1
<1>5. PICK i, l : b = <<i, l>> /\ i \in DOMAIN L /\ l \in DOMAIN remote /\ L[i].name = remote[l].name
  BY <1>3 DEF Common
<1>6. ASSUME NEW j \in DOMAIN L, NEW m \in DOMAIN remote, L[j].name = remote[m].name
      PROVE  i <= j /\ (i = j => l <= m)
  <2>1. PICK q : q = <<j, m>> /\ q \in Picked
    <3>1. <<j, m>>[1] = j /\ <<j, m>>[2] = m /\ <<j, m>> \in (DOMAIN L) \X (DOMAIN remote)
      OBVIOUS
    <3> QED BY <1>6, <3>1, Zenon DEF Common
  <2>2. Precedes(L, <<i, l>>, <<j, m>>)
    BY <1>3, <1>5, <2>1
  <2>3. \/ L[i].prio > L[j].prio
        \/ L[i].prio = L[j].prio /\ i < j
        \/ i = j /\ l <= m
    BY <2>2 DEF Precedes
  <2>4. i \in Nat /\ j \in Nat /\ l \in Nat /\ m \in Nat /\ L[i].prio \in Nat /\ L[j].prio \in Nat
    BY <1>0, <1>5
  <2>5. ~(j < i /\ L[i].prio > L[j].prio)
    BY <1>0, <1>5, <2>4
  <2> QED BY <2>3, <2>4, <2>5
<1> QED BY <1>4, <1>5, <1>6

\* Without a match none is selected.
LEMMA SelectsNone ==
  ASSUME NEW k, NEW remote, Common(K!DefaultCapabilities[k], remote) = {}
  PROVE  K!selectBestCodec(k, remote) = K!None
BY DEF K!selectBestCodec, Common

\* A line of a codec of a kind is parsed as one.
LEMMA Parsed ==
  ASSUME NEW k \in K!Kind, NEW sdp, DOMAIN sdp \subseteq Nat, NEW remote, remote = K!parseCodecs(k, sdp)
  PROVE  /\ DOMAIN remote \subseteq DOMAIN sdp
         /\ \A l \in DOMAIN remote :
              /\ sdp[l].rate # 0 /\ remote[l].name = sdp[l].name
              /\ remote[l].payload = K!parseUint8(sdp[l].payload)
         /\ \A l \in DOMAIN sdp :
              sdp[l].rate # 0 /\ (K!isVideoCodec(sdp[l].name) <=> k = "video") => l \in DOMAIN remote
<1>1. \A l : /\ K!parseRTPMap(sdp[l]).name = sdp[l].name
             /\ K!parseRTPMap(sdp[l]).payload = K!parseUint8(sdp[l].payload)
             /\ K!parseRTPMap(sdp[l]).kind = IF K!isVideoCodec(sdp[l].name) THEN "video" ELSE "audio"
  BY DEF K!parseRTPMap
<1>2. remote = [l \in {i \in DOMAIN sdp : sdp[i].rate # 0 /\ K!parseRTPMap(sdp[i]).kind = k} |->
                  K!parseRTPMap(sdp[l])]
  BY DEF K!parseCodecs
<1>3. DOMAIN remote = {i \in DOMAIN sdp : sdp[i].rate # 0 /\ K!parseRTPMap(sdp[i]).kind = k}
  BY <1>2
<1>4. \A l \in DOMAIN remote : remote[l] = K!parseRTPMap(sdp[l])
  BY <1>2
<1>5. ASSUME NEW l, K!isVideoCodec(sdp[l].name) <=> k = "video"
      PROVE  K!parseRTPMap(sdp[l]).kind = k
  BY <1>1, <1>5 DEF K!Kind
<1> QED BY <1>1, <1>3, <1>4, <1>5

\* What was selected from an offer: the first local codec that has a line with a
\* clock rate, and the payload type of its first such line.
SelectedFrom(k, sdp, x, i, l) ==
  /\ i \in DOMAIN K!DefaultCapabilities[k] /\ l \in DOMAIN sdp
  /\ sdp[l].rate # 0 /\ sdp[l].name = K!DefaultCapabilities[k][i].name
  /\ x = [K!DefaultCapabilities[k][i] EXCEPT !.payload = K!parseUint8(sdp[l].payload)]
  /\ \A j \in DOMAIN K!DefaultCapabilities[k] : \A m \in DOMAIN sdp :
       sdp[m].rate # 0 /\ sdp[m].name = K!DefaultCapabilities[k][j].name
         => i <= j /\ (i = j => l <= m)

\* It is selected if there is one.
LEMMA Selection ==
  ASSUME NEW k \in K!Kind, NEW sdp, DOMAIN sdp \subseteq Nat, NEW x,
         x = K!selectBestCodec(k, K!parseCodecs(k, sdp)),
         \/ x # K!None
         \/ \E j \in DOMAIN K!DefaultCapabilities[k] : \E m \in DOMAIN sdp :
              sdp[m].rate # 0 /\ sdp[m].name = K!DefaultCapabilities[k][j].name
  PROVE  \E i, l : SelectedFrom(k, sdp, x, i, l)
<1>1. PICK L : L = K!DefaultCapabilities[k]
  OBVIOUS
<1>2. PICK remote : remote = K!parseCodecs(k, sdp)
  OBVIOUS
<1>3. /\ DOMAIN remote \subseteq DOMAIN sdp
      /\ \A l \in DOMAIN remote :
           /\ sdp[l].rate # 0 /\ remote[l].name = sdp[l].name
           /\ remote[l].payload = K!parseUint8(sdp[l].payload)
      /\ \A l \in DOMAIN sdp :
           sdp[l].rate # 0 /\ (K!isVideoCodec(sdp[l].name) <=> k = "video") => l \in DOMAIN remote
  BY <1>2, Parsed
<1>4. \A j \in DOMAIN L : K!isVideoCodec(L[j].name) <=> k = "video"
  BY <1>1, Capabilities
<1>5. ASSUME NEW j \in DOMAIN L, NEW m \in DOMAIN sdp, sdp[m].rate # 0, sdp[m].name = L[j].name
      PROVE  m \in DOMAIN remote /\ L[j].name = remote[m].name
  <2>1. K!isVideoCodec(sdp[m].name) <=> k = "video"
    BY <1>4, <1>5
  <2> QED BY <1>3, <1>5, <2>1
<1>6. Common(L, remote) # {}
  <2>1. CASE x # K!None
    BY <1>1, <1>2, <2>1, SelectsNone
  <2>2. CASE \E j \in DOMAIN L : \E m \in DOMAIN sdp : sdp[m].rate # 0 /\ sdp[m].name = L[j].name
    <3>1. PICK j \in DOMAIN L, m \in DOMAIN sdp : sdp[m].rate # 0 /\ sdp[m].name = L[j].name
      BY <2>2
    <3>2. m \in DOMAIN remote /\ L[j].name = remote[m].name
      BY <1>5, <3>1
    <3>3. <<j, m>>[1] = j /\ <<j, m>>[2] = m /\ <<j, m>> \in (DOMAIN L) \X (DOMAIN remote)
      BY <3>2
    <3>4. <<j, m>> \in Common(L, remote)
      BY <3>2, <3>3, Zenon DEF Common
    <3> QED BY <3>4
  <2> QED BY <1>1, <2>1, <2>2
<1>7. PICK i \in DOMAIN L, l \in DOMAIN remote :
        /\ L[i].name = remote[l].name
        /\ K!selectBestCodec(k, remote) = [L[i] EXCEPT !.payload = remote[l].payload]
        /\ \A j \in DOMAIN L : \A m \in DOMAIN remote :
             L[j].name = remote[m].name => i <= j /\ (i = j => l <= m)
  <2>1. DOMAIN remote \subseteq Nat
    BY <1>3
  <2> QED BY <1>1, <1>6, <2>1, SelectsBest
<1>8. l \in DOMAIN sdp /\ sdp[l].rate # 0 /\ sdp[l].name = L[i].name
  BY <1>3, <1>7
<1>9. x = [L[i] EXCEPT !.payload = K!parseUint8(sdp[l].payload)]
  <2>1. remote[l].payload = K!parseUint8(sdp[l].payload)
    BY <1>3
  <2> QED BY <1>2, <1>7, <2>1
<1>10. \A j \in DOMAIN L : \A m \in DOMAIN sdp :
         sdp[m].rate # 0 /\ sdp[m].name = L[j].name => i <= j /\ (i = j => l <= m)
  BY <1>5, <1>7
<1>11. SelectedFrom(k, sdp, x, i, l)
  BY <1>1, <1>8, <1>9, <1>10 DEF SelectedFrom
<1> QED BY <1>11

\* The fields of what was selected.
LEMMA SelectedFields ==
  ASSUME NEW k \in K!Kind, NEW sdp, NEW x, NEW i, NEW l, SelectedFrom(k, sdp, x, i, l),
         NEW L, L = K!DefaultCapabilities[k]
  PROVE  /\ x = [name |-> L[i].name, prio |-> L[i].prio, rate |-> L[i].rate,
                 payload |-> K!parseUint8(sdp[l].payload)]
         /\ x.name = L[i].name /\ x.prio = L[i].prio /\ x.rate = L[i].rate
         /\ x.payload = K!parseUint8(sdp[l].payload)
<1>1. PICK c, u : c = L[i] /\ u = K!parseUint8(sdp[l].payload)
  OBVIOUS
<1>2. i \in DOMAIN L /\ x = [c EXCEPT !.payload = u]
  BY <1>1 DEF SelectedFrom
<1>3. PICK n, p, r, y : c = [name |-> n, prio |-> p, rate |-> r, payload |-> y]
  <2>1. L[i] = [name |-> L[i].name, prio |-> L[i].prio, rate |-> L[i].rate, payload |-> L[i].payload]
    BY <1>2, Capabilities, Zenon
  <2> QED BY <1>1, <2>1, Zenon
<1>4. c.name = n /\ c.prio = p /\ c.rate = r
  BY <1>3
<1>5. x = [name |-> n, prio |-> p, rate |-> r, payload |-> u]
  BY <1>2, <1>3
<1>6. x.name = n /\ x.prio = p /\ x.rate = r /\ x.payload = u
  BY <1>5
<1> QED BY <1>1, <1>4, <1>5, <1>6

\* Reading the answer finds what was selected.
LEMMA AnswerRead ==
  ASSUME NEW k \in K!Kind, NEW sdp, NEW x, NEW i, NEW l, SelectedFrom(k, sdp, x, i, l)
  PROVE  K!selectBestCodec(k, K!parseCodecs(k, K!generateAnswer(x))) = x
<1>1. PICK L : L = K!DefaultCapabilities[k]
  OBVIOUS
<1>2. PICK u : u = K!parseUint8(sdp[l].payload)
  OBVIOUS
<1>3. /\ x = [name |-> L[i].name, prio |-> L[i].prio, rate |-> L[i].rate, payload |-> u]
      /\ x.name = L[i].name /\ x.rate = L[i].rate /\ x.payload = u
  BY <1>1, <1>2, SelectedFields
<1>4. i \in DOMAIN L /\ L[i].rate # 0
  BY <1>1, Capabilities DEF SelectedFrom
<1>5. PICK z : z = [name |-> x.name, rate |-> x.rate, payload |-> x.payload]
  OBVIOUS
<1>6. PICK a : a = K!generateAnswer(x)
  OBVIOUS
<1>7. DOMAIN a = {1} /\ a[1] = z
  <2>1. a = <<z>>
    BY <1>5, <1>6 DEF K!generateAnswer
  <2>2. DOMAIN <<z>> = 1 .. 1 /\ <<z>>[1] = z
    OBVIOUS
  <2>3. 1 .. 1 = {1}
    OBVIOUS
  <2> QED BY <2>1, <2>2, <2>3
<1>8. a[1].name = L[i].name /\ a[1].rate = L[i].rate /\ a[1].payload = u
  BY <1>3, <1>5, <1>7
<1>9. PICK y : y = K!selectBestCodec(k, K!parseCodecs(k, a))
  OBVIOUS
<1>10. PICK j, m : SelectedFrom(k, a, y, j, m)
  <2>1. DOMAIN a \subseteq Nat /\ 1 \in DOMAIN a /\ a[1].rate # 0
    BY <1>4, <1>7, <1>8
  <2> QED BY <1>1, <1>4, <1>8, <1>9, <2>1, Selection
<1>11. m = 1 /\ j \in DOMAIN L /\ a[m].name = L[j].name
  BY <1>1, <1>7, <1>10 DEF SelectedFrom
<1>12. j = i
  <2>1. L[j].name = L[i].name
    BY <1>8, <1>11
  <2>2. i \in Nat /\ j \in Nat /\ ~(i < j) /\ ~(j < i)
    BY <1>1, <1>4, <1>11, <2>1, Capabilities
  <2> QED BY <2>2
<1>13. y = [name |-> L[i].name, prio |-> L[i].prio, rate |-> L[i].rate,
            payload |-> K!parseUint8(a[m].payload)]
  BY <1>1, <1>10, <1>12, SelectedFields
<1>14. K!parseUint8(a[m].payload) = u
  <2>1. a[m].payload = u
    BY <1>8, <1>11
  <2>2. K!parseUint8(u) = u
    BY <1>2 DEF K!parseUint8
  <2> QED BY <2>1, <2>2
<1> QED BY <1>3, <1>6, <1>9, <1>13, <1>14

\* There is an answer exactly when something was selected, from an offer that
\* is not changed any more.
CodecInv ==
  /\ DOMAIN offer \subseteq Nat
  /\ DOMAIN answer = K!Kind /\ DOMAIN selected = K!Kind /\ DOMAIN read = K!Kind
  /\ \A k \in K!Kind :
       IF answer[k] = <<>> THEN selected[k] = K!None /\ read[k] = K!None
       ELSE /\ selected[k] # K!None
            /\ selected[k] = K!selectBestCodec(k, K!parseCodecs(k, offer))
            /\ answer[k] = K!generateAnswer(selected[k])
            /\ read[k] \in {K!None, K!selectBestCodec(k, K!parseCodecs(k, answer[k]))}

\* The invariant holds at first.
LEMMA CodecInit == K!Init => CodecInv
<1> SUFFICES ASSUME K!Init PROVE CodecInv
  OBVIOUS
<1>1. /\ offer = <<>> /\ answer = [k \in K!Kind |-> <<>>]
      /\ selected = [k \in K!Kind |-> K!None] /\ read = [k \in K!Kind |-> K!None]
  BY DEF K!Init
<1>2. DOMAIN offer \subseteq Nat
  BY <1>1
<1> QED BY <1>1, <1>2 DEF CodecInv

\* The invariant is inductive.
LEMMA CodecKeeps == CodecInv /\ [K!Next]_(K!vars) => CodecInv'
<1> SUFFICES ASSUME CodecInv, [K!Next]_(K!vars) PROVE CodecInv'
  OBVIOUS
<1> USE DEF CodecInv
<1>0. K!None' = K!None
  BY DEF K!None
<1>1. ASSUME NEW line \in K!Line, K!AddLine(line) PROVE CodecInv'
  <2>1. /\ \A k \in K!Kind : answer[k] = <<>>
        /\ offer' = Append(offer, line) /\ UNCHANGED <<answer, selected, read>>
    BY <1>1 DEF K!AddLine
  <2>2. DOMAIN offer' \subseteq Nat
    BY <2>1
  <2> QED BY <2>1, <2>2
<1>2. ASSUME NEW k \in K!Kind, K!Negotiate(k) PROVE CodecInv'
  <2>1. PICK x : x = K!selectBestCodec(k, K!parseCodecs(k, offer))
    OBVIOUS
  <2>2. PICK a : a = K!generateAnswer(x)
    OBVIOUS
  <2>3. /\ answer[k] = <<>> /\ x # K!None
        /\ selected' = [selected EXCEPT ![k] = x] /\ answer' = [answer EXCEPT ![k] = a]
        /\ UNCHANGED <<offer, read>>
    BY <1>2, <2>1, <2>2 DEF K!Negotiate
  <2>4. /\ DOMAIN answer' = K!Kind /\ DOMAIN selected' = K!Kind /\ DOMAIN read' = K!Kind
        /\ selected'[k] = x /\ answer'[k] = a
        /\ \A l \in K!Kind \ {k} : selected'[l] = selected[l] /\ answer'[l] = answer[l]
    BY <2>3
  <2>5. a # <<>>
    BY <2>2 DEF K!generateAnswer
  <2>6. read[k] = K!None
    BY <2>3
  <2> QED BY <2>1, <2>2, <2>3, <2>4, <2>5, <2>6
<1>3. ASSUME NEW k \in K!Kind, K!ReadAnswer(k) PROVE CodecInv'
  <2>1. PICK y : y = K!selectBestCodec(k, K!parseCodecs(k, answer[k]))
    OBVIOUS
  <2>2. /\ answer[k] # <<>> /\ read' = [read EXCEPT ![k] = y] /\ UNCHANGED <<offer, answer, selected>>
    BY <1>3, <2>1 DEF K!ReadAnswer
  <2>3. /\ DOMAIN read' = K!Kind /\ read'[k] = y /\ \A l \in K!Kind \ {k} : read'[l] = read[l]
    BY <2>2
  <2> QED BY <2>1, <2>2, <2>3
<1>4. CASE UNCHANGED K!vars
  BY <1>4 DEF K!vars
<1> QED BY <1>1, <1>2, <1>3, <1>4 DEF K!Next

\* The invariant gives that both sides use the best codec.
LEMMA CodecShown == CodecInv => CodecsAgreed
<1> SUFFICES ASSUME CodecInv PROVE CodecsAgreed
  OBVIOUS
<1>1. ASSUME NEW k \in K!Kind, selected[k] # K!None
      PROVE  /\ \E i, l : SelectedFrom(k, offer, selected[k], i, l)
             /\ answer[k] = K!generateAnswer(selected[k])
             /\ read[k] \in {K!None, K!selectBestCodec(k, K!parseCodecs(k, answer[k]))}
  <2>1. answer[k] # <<>> /\ DOMAIN offer \subseteq Nat
    BY <1>1 DEF CodecInv
  <2>2. PICK x : x = selected[k]
    OBVIOUS
  <2>3. x = K!selectBestCodec(k, K!parseCodecs(k, offer)) /\ x # K!None
    BY <1>1, <2>1, <2>2 DEF CodecInv
  <2>4. \E i, l : SelectedFrom(k, offer, x, i, l)
    BY <2>1, <2>3, Selection
  <2> QED BY <2>1, <2>2, <2>4 DEF CodecInv
<1>2. K!BestCommonCodec
  <2> SUFFICES ASSUME NEW k \in K!Kind, selected[k] # K!None
               PROVE  LET Lines(name) == {i \in DOMAIN offer : offer[i].rate # 0 /\ offer[i].name = name}
                          mine == Lines(selected[k].name)
                      IN  /\ \E i \in mine : /\ \A j \in mine : i <= j
                                             /\ selected[k].payload = K!parseUint8(offer[i].payload)
                          /\ \A i \in DOMAIN K!DefaultCapabilities[k] :
                               LET c == K!DefaultCapabilities[k][i]
                               IN  Lines(c.name) # {} => c.prio <= selected[k].prio
    BY DEF K!BestCommonCodec
  <2>1. PICK x : x = selected[k]
    OBVIOUS
  <2>2. PICK i, l : SelectedFrom(k, offer, x, i, l)
    BY <1>1, <2>1
  <2>3. PICK L : L = K!DefaultCapabilities[k]
    OBVIOUS
  <2>4. /\ x.name = L[i].name /\ x.prio = L[i].prio /\ x.payload = K!parseUint8(offer[l].payload)
    BY <2>2, <2>3, SelectedFields
  <2>5. /\ i \in DOMAIN L /\ l \in DOMAIN offer /\ offer[l].rate # 0 /\ offer[l].name = x.name
        /\ \A j \in DOMAIN L : \A m \in DOMAIN offer :
             offer[m].rate # 0 /\ offer[m].name = L[j].name => i <= j /\ (i = j => l <= m)
    BY <2>2, <2>3, <2>4 DEF SelectedFrom
  <2>6. \A m \in DOMAIN offer : offer[m].rate # 0 /\ offer[m].name = x.name => l <= m
    BY <2>4, <2>5
  <2>7. ASSUME NEW j \in DOMAIN L, NEW m \in DOMAIN offer, offer[m].rate # 0, offer[m].name = L[j].name
        PROVE  L[j].prio <= x.prio
    <3>1. i <= j
      BY <2>5, <2>7
    <3>2. i \in Nat /\ j \in Nat /\ L[i].prio \in Nat /\ L[j].prio \in Nat
      BY <2>3, <2>5, Capabilities
    <3>3. i < j => L[i].prio >= L[j].prio
      BY <2>3, <2>5, Capabilities
    <3>4. L[j].prio <= L[i].prio
      BY <3>1, <3>2, <3>3
    <3> QED BY <2>4, <3>4
  <2> QED BY <2>1, <2>3, <2>4, <2>5, <2>6, <2>7
<1>3. K!AnswerAgrees
  <2> SUFFICES ASSUME NEW k \in K!Kind, read[k] # K!None PROVE read[k] = selected[k]
    BY DEF K!AnswerAgrees
  <2>1. selected[k] # K!None
    BY DEF CodecInv
  <2>2. PICK x : x = selected[k]
    OBVIOUS
  <2>3. PICK i, l : SelectedFrom(k, offer, x, i, l)
    BY <1>1, <2>1, <2>2
  <2>4. read[k] = K!selectBestCodec(k, K!parseCodecs(k, K!generateAnswer(x)))
    BY <1>1, <2>1, <2>2
  <2> QED BY <2>2, <2>3, <2>4, AnswerRead
<1> QED BY <1>2, <1>3 DEF CodecsAgreed, K!CodecsAgreed

\* Whatever lines an offer has, the answerer selects the best codec that both
\* have, with the payload type of its first line, and the offerer finds the same
\* codec and payload type in the answer (selectBestAudioCodec,
\* selectBestVideoCodec, generateAudioAnswer, generateVideoAnswer, parseRTPMap).
THEOREM CodecsKept == K!Spec => []CodecsAgreed
<1>1. K!Init => CodecInv
  BY CodecInit
<1>2. CodecInv /\ [K!Next]_(K!vars) => CodecInv'
  BY CodecKeeps
<1>3. CodecInv => CodecsAgreed
  BY CodecShown
<1> QED BY <1>1, <1>2, <1>3, PTL DEF K!Spec

=============================================================================
