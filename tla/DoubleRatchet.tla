--------------------------- MODULE DoubleRatchet ---------------------------
(***************************************************************************)
(* One Double Ratchet session between the X3DH initiator and responder     *)
(* (pkg/ratchet/x3dh.go, pkg/ratchet/ratchet.go) over a network that may   *)
(* reorder, duplicate and lose messages.                                   *)
(*                                                                         *)
(* Keys are symbolic.  An X25519 key pair is a natural number standing for *)
(* both halves; a DH output is the unordered pair of the two key pairs; a  *)
(* root key is the shared secret with the sequence of DH outputs mixed     *)
(* into it by KDF_RK; a chain key is the root key it was split from and    *)
(* the number of KDF_CK steps taken; the message key of a KDF_CK step is   *)
(* named by the chain key it was derived from.  Two keys are equal exactly *)
(* when their derivations are, and opening a ciphertext succeeds exactly   *)
(* with the key that sealed it.                                            *)
(***************************************************************************)
EXTENDS Integers, Sequences, FiniteSets, SequencesExt

CONSTANTS
  Initiator, Responder,   \* the two parties
  Nil,                    \* an unset (nil) key
  MaxSkippedKeys,         \* capacity of the skipped-key cache (256 in the code)
  MaxSends,               \* bound: messages each party may send
  Window,                 \* network: a message may overtake Window - 1 others
  CrossChain,             \* network: may it overtake one of an older DH ratchet key
  MaxDups,                \* network: bound on duplicate deliveries
  MaxLosses               \* network: bound on lost messages

Party == {Initiator, Responder}

ASSUME PartyAssumption == Initiator # Responder
ASSUME MaxSkippedAssumption == MaxSkippedKeys \in Nat
ASSUME BoundAssumption ==
  /\ MaxSends \in Nat
  /\ Window \in Nat \ {0}
  /\ CrossChain \in BOOLEAN
  /\ MaxDups \in Nat
  /\ MaxLosses \in Nat

VARIABLES
  st,        \* st[p]: the DoubleRatchetState of party p
  fresh,     \* the next key pair generateX25519KeyPair returns
  net,       \* net[p]: messages in flight to p, oldest first
  nsent,     \* nsent[p]: messages p has sent
  dups,      \* duplicate deliveries so far
  losses,    \* messages lost so far
  sent,      \* history: every message ever sealed
  accepted,  \* history: accepted[p], the ids p has decrypted
  failed     \* history: failed[p], ids p could not decrypt and had not yet decrypted

vars == <<st, fresh, net, nsent, dups, losses, sent, accepted, failed>>

Peer(p) == IF p = Initiator THEN Responder ELSE Initiator

-----------------------------------------------------------------------------
(* Key derivation *)

KeyPair == Nat

IKInitiator == 0   \* long-term identity DH keys,
IKResponder == 1
SPK         == 2   \* the responder's signed prekey,
OPK         == 3   \* its one-time prekey,
EK          == 4   \* the initiator's ephemeral key,
FirstRatchetKey == 5   \* and its first ratchet key

DH(a, b) == {a, b}

SharedSecret == [dhs : Seq(SUBSET KeyPair), info : KeyPair \X KeyPair]
RootKey      == [sk : SharedSecret, mixed : Seq(SUBSET KeyPair)]
ChainKey     == [root : RootKey, step : Nat]

ASSUME NilAssumption == Nil \notin KeyPair /\ Nil \notin ChainKey

\* The shared secret of the initiator; remoteOPK is Nil when none was available.
X3DHInitiator(localIK, remoteIK, remoteSPK, remoteOPK, ek) ==
  LET dh3 == <<DH(localIK, remoteSPK), DH(ek, remoteIK), DH(ek, remoteSPK)>>
  IN  [dhs  |-> IF remoteOPK = Nil THEN dh3 ELSE Append(dh3, DH(ek, remoteOPK)),
       info |-> <<localIK, remoteIK>>]

\* The same secret computed by the responder from the initiator's public keys.
X3DHResponder(localIK, localSPK, localOPK, remoteIK, ek) ==
  LET dh3 == <<DH(localSPK, remoteIK), DH(localIK, ek), DH(localSPK, ek)>>
  IN  [dhs  |-> IF localOPK = Nil THEN dh3 ELSE Append(dh3, DH(localOPK, ek)),
       info |-> <<remoteIK, localIK>>]

\* KDF_RK splits (root key, DH output) into a new root key and a new chain key.
KDF_RK(rk, dh) == [rk EXCEPT !.mixed = Append(@, dh)]

\* Mutant of ChainOf: the DH outputs are not part of the chain key.
MutantChainOf(rk) == [root |-> [rk EXCEPT !.mixed = <<>>], step |-> 0]

ChainOf(rk)    == [root |-> rk, step |-> 0]

\* One KDF_CK step: the next chain key.  The message key is named by ck itself.
KDF_CK(ck) == [ck EXCEPT !.step = @ + 1]
KDF_CKn(ck, k) == [ck EXCEPT !.step = @ + k]

-----------------------------------------------------------------------------
(* Session state *)

Label      == KeyPair \X Nat        \* "%x:%d" of ratchet key and counter
NoKeys     == [l \in {} |-> Nil]

NewDoubleRatchetStateInitiator(sk, remoteSPK, k) ==
  LET rk == KDF_RK([sk |-> sk, mixed |-> <<>>], DH(k, remoteSPK))
  IN  [dhs |-> k, dhr |-> remoteSPK, root |-> rk,
       cks |-> ChainOf(rk), ns |-> 0, pn |-> 0,
       ckr |-> Nil, nr |-> 0, skipped |-> NoKeys]

NewDoubleRatchetStateResponder(sk, localSPK) ==
  [dhs |-> localSPK, dhr |-> Nil, root |-> [sk |-> sk, mixed |-> <<>>],
   cks |-> Nil, ns |-> 0, pn |-> 0,
   ckr |-> Nil, nr |-> 0, skipped |-> NoKeys]

\* Mutant of dhRatchetSend: the previous chain length is off by one.
MutantSend(s, k) ==
  LET rk == KDF_RK(s.root, DH(k, s.dhr))
  IN  [s EXCEPT !.pn = s.ns - 1, !.dhs = k, !.root = rk, !.cks = ChainOf(rk), !.ns = 0]

\* dhRatchetSend with the freshly generated key pair k; requires s.dhr # Nil.
dhRatchetSend(s, k) ==
  LET rk == KDF_RK(s.root, DH(k, s.dhr))
  IN  [s EXCEPT !.pn = s.ns, !.dhs = k, !.root = rk, !.cks = ChainOf(rk), !.ns = 0]

\* Mutant of Fits: the limit is tested with <=.
MutantFits(s, c) ==
  Cardinality(DOMAIN s.skipped)
    + Cardinality({d \in s.nr .. (c - 1) : <<s.dhr, d>> \notin DOMAIN s.skipped})
    <= MaxSkippedKeys

\* The caching loop shared by advanceReceivingChain, skipMessages and
\* cacheSkippedKeys: for each counter from nr up to target - 1 the message key
\* is stored under <<dhr, counter>>, unless the map already holds
\* MaxSkippedKeys entries when its turn comes.
Fits(s, c) ==
  Cardinality(DOMAIN s.skipped)
    + Cardinality({d \in s.nr .. (c - 1) : <<s.dhr, d>> \notin DOMAIN s.skipped})
    < MaxSkippedKeys

CachedCounters(s, target) == {c \in s.nr .. (target - 1) : Fits(s, c)}

CacheKeys(s, target) ==
  LET new == {<<s.dhr, c>> : c \in CachedCounters(s, target)}
  IN  [l \in DOMAIN s.skipped \cup new |->
         IF l \in new THEN KDF_CKn(s.ckr, l[2] - s.nr) ELSE s.skipped[l]]

\* skipMessages works on copies of the chain: only the cache changes.
skipMessages(s, target) == [s EXCEPT !.skipped = CacheKeys(s, target)]

\* advanceReceivingChain, and cacheSkippedKeys once the chain is initialized.
advanceReceivingChain(s, target) ==
  IF s.nr < target
    THEN [s EXCEPT !.skipped = CacheKeys(s, target),
                   !.ckr = KDF_CKn(@, target - s.nr), !.nr = target]
    ELSE s

cacheSkippedKeys(s, prevChainLen) ==
  IF s.ckr = Nil THEN s ELSE advanceReceivingChain(s, prevChainLen)

\* Mutant of newReceivingChain: the chain key is not taken over.
MutantNewChain(s, d) == [s EXCEPT !.root = KDF_RK(@, DH(s.dhs, d)), !.nr = 0, !.dhr = d]

\* The receiving half of a DH ratchet step to the sender's key d.
newReceivingChain(s, d) ==
  LET rk == KDF_RK(s.root, DH(s.dhs, d))
  IN  [s EXCEPT !.root = rk, !.ckr = ChainOf(rk), !.nr = 0, !.dhr = d]

dhRatchetReceive(s, h, k) ==
  dhRatchetSend(newReceivingChain(cacheSkippedKeys(s, h.pn), h.dh), k)

\* Decrypt, first part: follow the ratchet key in the header.
NeedsRatchet(s, h) == s.dhr # Nil /\ h.dh # s.dhr

followHeader(s, h, k) ==
  IF NeedsRatchet(s, h) THEN dhRatchetReceive(s, h, k)
  ELSE IF s.dhr = Nil THEN newReceivingChain(s, h.dh)
  ELSE s

\* getSkippedKey removes the entry whether or not it opens the message.
HasSkippedKey(s, h) == <<h.dh, h.n>> \in DOMAIN s.skipped

\* Mutant of getSkippedKey: the key stays in the cache after its use.
MutantGetSkippedKey(s, h) == s

getSkippedKey(s, h) ==
  [s EXCEPT !.skipped = Restrict(@, DOMAIN @ \ {<<h.dh, h.n>>})]

\* Decrypt, last part: the chain moves to the message and one step past it.
\* A counter below nr is not rejected: the key at nr is spent on it.
nextMessageKey(s, h) ==
  advanceReceivingChain(IF h.n > s.nr THEN skipMessages(s, h.n) ELSE s, h.n)

\* Mutant of consumeKey: the chain advances but the counter does not.
MutantConsumeKey(s) == [s EXCEPT !.ckr = KDF_CK(@)]

consumeKey(s) == [s EXCEPT !.ckr = KDF_CK(@), !.nr = @ + 1]

-----------------------------------------------------------------------------
(* Actions *)

Init ==
  /\ \E opk \in {OPK, Nil} :
       st = [p \in Party |->
         IF p = Initiator
           THEN NewDoubleRatchetStateInitiator(
                  X3DHInitiator(IKInitiator, IKResponder, SPK, opk, EK),
                  SPK, FirstRatchetKey)
           ELSE NewDoubleRatchetStateResponder(
                  X3DHResponder(IKResponder, SPK, opk, IKInitiator, EK), SPK)]
  /\ fresh = FirstRatchetKey + 1
  /\ net = [p \in Party |-> <<>>]
  /\ nsent = [p \in Party |-> 0]
  /\ dups = 0 /\ losses = 0
  /\ sent = {}
  /\ accepted = [p \in Party |-> {}]
  /\ failed = [p \in Party |-> {}]

\* Encrypt returns an error, changing nothing, while neither chain nor peer
\* key is set (the responder before its first receipt).
CanEncrypt(s) == s.cks # Nil \/ s.dhr # Nil

encryptState(s, k) == IF s.cks = Nil THEN dhRatchetSend(s, k) ELSE s

sealState(s) == [s EXCEPT !.cks = KDF_CK(@), !.ns = @ + 1]

Encrypt(p) ==
  /\ nsent[p] < MaxSends
  /\ CanEncrypt(st[p])
  /\ LET s == encryptState(st[p], fresh)
         m == [id |-> <<p, nsent[p]>>, dh |-> s.dhs, pn |-> s.pn, n |-> s.ns,
               mk |-> s.cks]
     IN  /\ st' = [st EXCEPT ![p] = sealState(s)]
         /\ fresh' = IF st[p].cks = Nil THEN fresh + 1 ELSE fresh
         /\ net' = [net EXCEPT ![Peer(p)] = Append(@, m)]
         /\ sent' = sent \cup {m}
  /\ nsent' = [nsent EXCEPT ![p] = @ + 1]
  /\ UNCHANGED <<dups, losses, accepted, failed>>

Accept(p, m) ==
  /\ accepted' = [accepted EXCEPT ![p] = @ \cup {m.id}]
  /\ UNCHANGED failed

Reject(p, m) ==
  /\ failed' = [failed EXCEPT ![p] = IF m.id \in accepted[p] THEN @ ELSE @ \cup {m.id}]
  /\ UNCHANGED accepted

\* Decrypt of message m by p: with a cached key, or else along the chain.
Decrypt(p, m) ==
  LET s == followHeader(st[p], m, fresh)
      t == IF HasSkippedKey(s, m) THEN getSkippedKey(s, m) ELSE s
      u == nextMessageKey(t, m)
  IN  /\ fresh' = IF NeedsRatchet(st[p], m) THEN fresh + 1 ELSE fresh
      /\ \/ /\ HasSkippedKey(s, m) /\ s.skipped[<<m.dh, m.n>>] = m.mk
            /\ st' = [st EXCEPT ![p] = t]
            /\ Accept(p, m)
         \/ /\ ~(HasSkippedKey(s, m) /\ s.skipped[<<m.dh, m.n>>] = m.mk)
            /\ t.ckr # Nil
            /\ st' = [st EXCEPT ![p] = consumeKey(u)]
            /\ IF u.ckr = m.mk THEN Accept(p, m) ELSE Reject(p, m)

-----------------------------------------------------------------------------
(* The network *)

MayDeliver(q, i) ==
  /\ i <= Window
  /\ CrossChain \/ \A j \in 1 .. i : q[j].dh = q[i].dh

Deliver(p) ==
  \E i \in DOMAIN net[p] :
    /\ MayDeliver(net[p], i)
    /\ Decrypt(p, net[p][i])
    /\ net' = [net EXCEPT ![p] = RemoveAt(@, i)]
    /\ UNCHANGED <<nsent, dups, losses, sent>>

Duplicate(p) ==
  \E i \in DOMAIN net[p] :
    /\ dups < MaxDups
    /\ MayDeliver(net[p], i)
    /\ Decrypt(p, net[p][i])
    /\ dups' = dups + 1
    /\ UNCHANGED <<net, nsent, losses, sent>>

Lose(p) ==
  \E i \in DOMAIN net[p] :
    /\ losses < MaxLosses
    /\ net' = [net EXCEPT ![p] = RemoveAt(@, i)]
    /\ losses' = losses + 1
    /\ UNCHANGED <<st, fresh, nsent, dups, sent, accepted, failed>>

Next ==
  \E p \in Party : Encrypt(p) \/ Deliver(p) \/ Duplicate(p) \/ Lose(p)

Spec == Init /\ [][Next]_vars

\* The network keeps delivering what is in flight to each party.
FairSpec == Spec /\ \A p \in Party : WF_vars(Deliver(p))

-----------------------------------------------------------------------------
(* Properties *)

Message == [id : Party \X Nat, dh : KeyPair, pn : Nat, n : Nat, mk : ChainKey]

IsSkippedMap(f) ==
  /\ f = [l \in DOMAIN f |-> f[l]]
  /\ DOMAIN f \subseteq Label
  /\ IsFiniteSet(DOMAIN f)
  /\ \A l \in DOMAIN f : f[l] \in ChainKey

IsSessionState(s) ==
  /\ DOMAIN s = {"dhs", "dhr", "root", "cks", "ns", "pn", "ckr", "nr", "skipped"}
  /\ s.dhs \in KeyPair /\ s.dhr \in KeyPair \cup {Nil}
  /\ s.root \in RootKey
  /\ s.cks \in ChainKey \cup {Nil} /\ s.ckr \in ChainKey \cup {Nil}
  /\ s.ns \in Nat /\ s.pn \in Nat /\ s.nr \in Nat
  /\ IsSkippedMap(s.skipped)

\* Type correctness of the session states, the network and the histories.
TypeOK ==
  /\ DOMAIN st = Party
  /\ \A p \in Party : IsSessionState(st[p])
  /\ fresh \in KeyPair
  /\ net \in [Party -> Seq(Message)]
  /\ nsent \in [Party -> Nat] /\ dups \in Nat /\ losses \in Nat
  /\ sent \subseteq Message
  /\ accepted \in [Party -> SUBSET (Party \X Nat)]
  /\ failed \in [Party -> SUBSET (Party \X Nat)]

\* Every message decrypts on its first arrival: Decrypt never answers
\* "decryption failed" for a message it has not yet returned (ratchet.go, Decrypt).
NoDecryptFailure == \A p \in Party : failed[p] = {}

\* No loop that caches skipped keys (advanceReceivingChain, skipMessages,
\* cacheSkippedKeys) ever grows the map past MaxSkippedKeys, even run twice over
\* the same counters or across a replayed ratchet key.
SkippedKeysBounded ==
  \A p \in Party : Cardinality(DOMAIN st[p].skipped) <= MaxSkippedKeys

\* No two messages, of either party, are ever sealed under the same message key
\* (and hence the same nonce, DeriveNonce), whatever the network replays into
\* dhRatchetReceive in between.
NoKeyReuse == \A m1, m2 \in sent : m1.mk = m2.mk => m1 = m2

\* Can the message key mk still be read out of, or derived from, the chains and
\* the cache held in session state s?
Derivable(s, mk) ==
  \/ \E l \in DOMAIN s.skipped : s.skipped[l] = mk
  \/ \E ck \in {s.cks, s.ckr} \ {Nil} : ck.root = mk.root /\ ck.step <= mk.step

\* Forward secrecy and replay protection: once a message has been sealed its key
\* is out of the sender's chains, and once it has been decrypted its key is out
\* of the receiver's chains and cache, so it can never be decrypted again.
ForwardSecrecy ==
  \A m \in sent :
    LET p == m.id[1] IN
    /\ ~Derivable(st[p], m.mk)
    /\ m.id \in accepted[Peer(p)] => ~Derivable(st[Peer(p)], m.mk)

\* Every message sent is eventually decrypted by the peer (Decrypt), unless the
\* network loses one; the network reorders within sending chains.
EventuallyDecrypted ==
  \A p \in Party, k \in 0 .. (MaxSends - 1) :
    (nsent[p] > k) ~> (<<p, k>> \in accepted[Peer(p)] \/ losses > 0)

=============================================================================
