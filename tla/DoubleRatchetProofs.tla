------------------------ MODULE DoubleRatchetProofs ------------------------
(***************************************************************************)
(* Proofs about DoubleRatchet, for any number of messages, any cache size  *)
(* and any behaviour of the network:                                       *)
(*   - the session states keep their type (TypeCorrect);                   *)
(*   - the skipped-key cache is bounded (CacheBounded);                    *)
(*   - no message key is used twice (KeysUnique);                          *)
(*   - a key is gone once used, by sender and receiver (ForwardSecure);    *)
(*   - every message is opened on its first arrival (Delivered).           *)
(***************************************************************************)
EXTENDS DoubleRatchet, FiniteSetTheorems, WellFoundedInduction, TLAPS

-----------------------------------------------------------------------------
(* The inductive invariant *)

\* Every DH output mixed into root key rk is of key pairs generated before f.
Below(rk, f) == \A i \in DOMAIN rk.mixed : \A x \in rk.mixed[i] : x < f

Depth(rk) == Len(rk.mixed)

\* What a session state s satisfies on its own, f being the next key pair.
\* A party's root key only ever grows, so Depth tells its chains apart.
SessionInv(s, f) ==
  /\ s.dhs < f
  /\ s.dhr # Nil => s.dhr < f
  /\ s.dhr = Nil => s.ckr = Nil
  /\ Below(s.root, f)
  /\ s.cks # Nil => Below(s.cks.root, f) /\ Depth(s.cks.root) <= Depth(s.root)
  /\ s.ckr # Nil => Below(s.ckr.root, f) /\ Depth(s.ckr.root) <= Depth(s.root)
  /\ \A l \in DOMAIN s.skipped :
       /\ Below(s.skipped[l].root, f)
       /\ Depth(s.skipped[l].root) <= Depth(s.root)
       /\ s.cks # Nil => s.skipped[l].root # s.cks.root
       /\ s.ckr # Nil /\ s.skipped[l].root = s.ckr.root
            => s.skipped[l].step < s.ckr.step
  /\ \A l1, l2 \in DOMAIN s.skipped : s.skipped[l1] = s.skipped[l2] => l1 = l2
  /\ s.cks # Nil /\ s.ckr # Nil => s.cks.root # s.ckr.root

\* mk was used by the owner of s to seal a message.
Spent(s, mk) ==
  /\ Depth(mk.root) <= Depth(s.root)
  /\ s.cks # Nil /\ mk.root = s.cks.root => mk.step < s.cks.step
  /\ s.ckr # Nil => mk.root # s.ckr.root
  /\ \A l \in DOMAIN s.skipped : mk.root # s.skipped[l].root

\* mk was used by the owner of s to open a message.
Consumed(s, mk) ==
  /\ Depth(mk.root) <= Depth(s.root)
  /\ s.cks # Nil => mk.root # s.cks.root
  /\ s.ckr # Nil /\ mk.root = s.ckr.root => mk.step < s.ckr.step
  /\ \A l \in DOMAIN s.skipped : mk # s.skipped[l]

\* The peer's keys never belong to a sending chain of s.
Foreign(s, mk) == s.cks # Nil => mk.root # s.cks.root

MessageInv ==
  /\ \A m \in sent :
       /\ Below(m.mk.root, fresh)
       /\ m.dh < fresh
       /\ m.id[2] < nsent[m.id[1]]
       /\ Spent(st[m.id[1]], m.mk)
       /\ Foreign(st[Peer(m.id[1])], m.mk)
       /\ m.id \in accepted[Peer(m.id[1])] => Consumed(st[Peer(m.id[1])], m.mk)
  /\ \A m1, m2 \in sent : m1.id = m2.id => m1 = m2

InFlight(p) == {m \in sent : m.id[1] = Peer(p)}

NetworkInv == \A p \in Party : net[p] \in Seq(InFlight(p))

HistoryInv == \A p \in Party : \A id \in accepted[p] : id[2] < nsent[id[1]]

ChainsDistinct ==
  st[Initiator].cks # Nil /\ st[Responder].cks # Nil
    => st[Initiator].cks.root # st[Responder].cks.root

IInv ==
  /\ TypeOK
  /\ \A p \in Party : SessionInv(st[p], fresh)
  /\ SkippedKeysBounded
  /\ MessageInv /\ NetworkInv /\ HistoryInv /\ ChainsDistinct
  /\ NoKeyReuse

-----------------------------------------------------------------------------
(* Key derivation *)

\* KDF_RK yields a root key one DH output deeper.
LEMMA RootKeyStep ==
  ASSUME NEW rk \in RootKey, NEW dh \in SUBSET KeyPair
  PROVE  /\ KDF_RK(rk, dh) \in RootKey
         /\ Depth(rk) \in Nat
         /\ Depth(KDF_RK(rk, dh)) = Depth(rk) + 1
         /\ \A f : Below(KDF_RK(rk, dh), f) <=> Below(rk, f) /\ \A x \in dh : x < f
<1> DEFINE r == KDF_RK(rk, dh)
<1>1. /\ rk.mixed \in Seq(SUBSET KeyPair) /\ rk.sk \in SharedSecret
      /\ rk = [sk |-> rk.sk, mixed |-> rk.mixed]
  BY DEF RootKey
<1>a. r = [sk |-> rk.sk, mixed |-> Append(rk.mixed, dh)]
  <2> DEFINE sk == rk.sk  mx == rk.mixed
  <2>1. [[sk |-> sk, mixed |-> mx] EXCEPT !.mixed = Append(mx, dh)]
          = [sk |-> sk, mixed |-> Append(mx, dh)]
    BY SMTT(40)
  <2> QED BY <1>1, <2>1 DEF KDF_RK
<1>2. /\ Append(rk.mixed, dh) \in Seq(SUBSET KeyPair)
      /\ Len(Append(rk.mixed, dh)) = Len(rk.mixed) + 1
      /\ Len(rk.mixed) \in Nat
      /\ DOMAIN rk.mixed = 1 .. Len(rk.mixed)
      /\ DOMAIN Append(rk.mixed, dh) = 1 .. (Len(rk.mixed) + 1)
      /\ Append(rk.mixed, dh)[Len(rk.mixed) + 1] = dh
      /\ \A i \in 1 .. Len(rk.mixed) : Append(rk.mixed, dh)[i] = rk.mixed[i]
  BY <1>1
<1>3. r \in RootKey /\ Depth(rk) \in Nat /\ Depth(r) = Depth(rk) + 1
  BY <1>1, <1>a, <1>2 DEF RootKey, Depth
<1>4. ASSUME NEW f PROVE Below(r, f) <=> Below(rk, f) /\ \A x \in dh : x < f
  BY <1>1, <1>a, <1>2 DEF Below
<1> QED BY <1>3, <1>4

\* The chain key split off a root key, and the keys further down its chain.
LEMMA ChainKeys ==
  /\ \A rk \in RootKey :
       ChainOf(rk) \in ChainKey /\ ChainOf(rk).root = rk /\ ChainOf(rk).step = 0
  /\ \A ck \in ChainKey : \A k \in Nat :
       /\ KDF_CKn(ck, k) \in ChainKey
       /\ KDF_CKn(ck, k).root = ck.root /\ KDF_CKn(ck, k).step = ck.step + k
  /\ \A ck \in ChainKey :
       /\ KDF_CK(ck) \in ChainKey
       /\ KDF_CK(ck).root = ck.root /\ KDF_CK(ck).step = ck.step + 1
  /\ \A ck \in ChainKey : ck.root \in RootKey /\ ck.step \in Nat
  /\ \A c1, c2 \in ChainKey : c1.root = c2.root /\ c1.step = c2.step => c1 = c2
BY DEF ChainOf, KDF_CK, KDF_CKn, ChainKey



-----------------------------------------------------------------------------
(* The skipped-key cache *)

\* A nonempty set of naturals below n has a greatest element.
LEMMA GreatestElement ==
  ASSUME NEW n \in Nat, NEW C, C # {}, \A c \in C : c \in Nat /\ c < n
  PROVE  \E g \in C : \A c \in C : c <= g
<1> DEFINE T == {n - c : c \in C}
<1>1. T \subseteq Nat /\ T # {}
  OBVIOUS
<1>2. PICK x \in T : \A y \in T : ~(<<y, x>> \in OpToRel(<, Nat))
  BY <1>1, NatLessThanWellFounded, WFMin
<1>3. PICK g \in C : x = n - g
  BY <1>2
<1>4. ASSUME NEW c \in C PROVE c <= g
  <2>1. n - c \in T /\ n - c \in Nat /\ x \in Nat
    BY <1>1
  <2>2. ~(n - c < x)
    BY <1>2, <2>1 DEF OpToRel
  <2> QED BY <1>3, <2>1, <2>2
<1> QED BY <1>4

\* Where the entries of the cache come from: it holds what it held, or the key
\* of the current receiving chain at a skipped counter.
CacheGrows(s, f, n) ==
  \A l \in DOMAIN f :
    \/ l \in DOMAIN s.skipped /\ f[l] = s.skipped[l]
    \/ /\ l \in Label /\ l[1] = s.dhr /\ l[2] \in s.nr .. (n - 1)
       /\ f[l] = KDF_CKn(s.ckr, l[2] - s.nr)

\* A state that has a receiving chain.
Receiving(s) == IsSessionState(s) /\ s.ckr \in ChainKey /\ s.dhr \in KeyPair

LEMMA CacheKeysGrows ==
  ASSUME NEW s, Receiving(s), NEW n \in Nat
  PROVE  CacheGrows(s, CacheKeys(s, n), n) /\ IsSkippedMap(CacheKeys(s, n))
<1> DEFINE new == {<<s.dhr, c>> : c \in CachedCounters(s, n)}
           f == CacheKeys(s, n)
<1>1. /\ s.nr \in Nat /\ s.dhr \in KeyPair /\ s.ckr \in ChainKey
      /\ IsSkippedMap(s.skipped)
  BY DEF Receiving, IsSessionState
<1>2. CachedCounters(s, n) \subseteq s.nr .. (n - 1)
  BY DEF CachedCounters
<1>3. IsFiniteSet(CachedCounters(s, n)) /\ CachedCounters(s, n) \subseteq Nat
  <2>1. IsFiniteSet(s.nr .. (n - 1)) /\ s.nr .. (n - 1) \subseteq Nat
    BY <1>1, FS_Interval, SMTT(40)
  <2> QED BY <1>2, <2>1, FS_Subset
<1>4. /\ DOMAIN f = DOMAIN s.skipped \cup new
      /\ \A l \in DOMAIN f :
           f[l] = IF l \in new THEN KDF_CKn(s.ckr, l[2] - s.nr) ELSE s.skipped[l]
  BY DEF CacheKeys
<1>5. IsFiniteSet(new) /\ new \subseteq Label
  <2> DEFINE g == [c \in CachedCounters(s, n) |-> <<s.dhr, c>>]
  <2>1. g \in Surjection(CachedCounters(s, n), new)
    BY DEF Surjection
  <2> QED BY <1>1, <1>3, <2>1, FS_Surjection DEF Label
<1>6. \A l \in new : /\ l \in Label /\ l[1] = s.dhr /\ l[2] \in s.nr .. (n - 1)
                     /\ l[2] - s.nr \in Nat
  BY <1>1, <1>2, <1>5
<1>7. CacheGrows(s, f, n)
  BY <1>4, <1>6 DEF CacheGrows
<1>8. IsSkippedMap(f)
  <2>1. f = [l \in DOMAIN f |-> f[l]]
    BY DEF CacheKeys
  <2>2. IsFiniteSet(DOMAIN f) /\ DOMAIN f \subseteq Label
    <3>1. IsFiniteSet(DOMAIN s.skipped) /\ DOMAIN s.skipped \subseteq Label
      BY <1>1 DEF IsSkippedMap
    <3>2. IsFiniteSet(DOMAIN s.skipped \cup new)
      BY <1>5, <3>1, FS_Union
    <3> QED BY <1>4, <1>5, <3>1, <3>2
  <2>3. \A l \in DOMAIN f : f[l] \in ChainKey
    BY <1>1, <1>4, <1>6, ChainKeys DEF IsSkippedMap
  <2> QED BY <2>1, <2>2, <2>3 DEF IsSkippedMap
<1> QED BY <1>7, <1>8

\* The caching loop stops at MaxSkippedKeys entries.
LEMMA CacheKeysBounded ==
  ASSUME NEW s, IsSessionState(s), NEW n \in Nat,
         Cardinality(DOMAIN s.skipped) <= MaxSkippedKeys
  PROVE  Cardinality(DOMAIN CacheKeys(s, n)) <= MaxSkippedKeys
<1> DEFINE D == DOMAIN s.skipped
           C == {c \in CachedCounters(s, n) : <<s.dhr, c>> \notin D}
           new == {<<s.dhr, c>> : c \in C}
<1>1. s.nr \in Nat /\ IsFiniteSet(D) /\ Cardinality(D) \in Nat
  BY FS_CardinalityType DEF IsSessionState, IsSkippedMap
<1>2. DOMAIN CacheKeys(s, n) = D \cup new
  BY DEF CacheKeys
<1>3. C \subseteq s.nr .. (n - 1) /\ C \subseteq Nat
  BY <1>1 DEF CachedCounters
<1>4. CASE C = {}
  BY <1>2, <1>4
<1>5. CASE C # {}
  <2>1. PICK g \in C : \A c \in C : c <= g
    <3>1. \A c \in C : c \in Nat /\ c < n
      BY <1>1, <1>3
    <3> HIDE DEF C
    <3> QED BY <1>5, <3>1, GreatestElement
  <2> DEFINE E == {d \in s.nr .. (g - 1) : <<s.dhr, d>> \notin D}
  <2>2. IsFiniteSet(E) /\ Cardinality(E) \in Nat
    <3>1. IsFiniteSet(s.nr .. (g - 1)) /\ E \subseteq s.nr .. (g - 1)
      <4>1. s.nr \in Int /\ g - 1 \in Int
        BY <1>1, <1>3, <2>1
      <4> QED BY <4>1, FS_Interval
    <3> QED BY <3>1, FS_Subset, FS_CardinalityType
  <2>3. Cardinality(D) + Cardinality(E) < MaxSkippedKeys
    BY <2>1 DEF CachedCounters, Fits
  <2>4. C \subseteq E \cup {g}
    BY <1>1, <1>3, <2>1
  <2>5. g \notin E
    BY <1>1, <1>3
  <2>6. IsFiniteSet(E \cup {g}) /\ Cardinality(E \cup {g}) = Cardinality(E) + 1
    BY <2>2, <2>5, FS_AddElement
  <2>7. IsFiniteSet(C) /\ Cardinality(C) <= Cardinality(E) + 1 /\ Cardinality(C) \in Nat
    <3>1. IsFiniteSet(C) /\ Cardinality(C) <= Cardinality(E \cup {g})
      <4> HIDE DEF C, E
      <4> QED BY <2>4, <2>6, FS_Subset
    <3> QED BY <2>6, <3>1, FS_CardinalityType
  <2>8. [c \in C |-> <<s.dhr, c>>] \in Surjection(C, new)
    BY DEF Surjection
  <2>9. IsFiniteSet(new) /\ Cardinality(new) <= Cardinality(C) /\ Cardinality(new) \in Nat
    BY <2>7, <2>8, FS_Surjection, FS_CardinalityType
  <2>10. D \cap new = {}
    OBVIOUS
  <2>11. Cardinality(D \cup new) = Cardinality(D) + Cardinality(new)
    <3>1. Cardinality(D \cap new) = 0
      BY <2>10, FS_EmptySet
    <3>2. Cardinality(D \cup new)
            = Cardinality(D) + Cardinality(new) - Cardinality(D \cap new)
      <4> HIDE DEF new, D
      <4> QED BY <1>1, <2>9, FS_Union
    <3> HIDE DEF new, D
    <3> QED BY <1>1, <2>9, <3>1, <3>2
  <2> HIDE DEF new, D, C, E
  <2> QED BY <1>1, <1>2, <2>2, <2>3, <2>7, <2>9, <2>11, MaxSkippedAssumption
<1> QED BY <1>4, <1>5

-----------------------------------------------------------------------------
(* Steps of the session state *)

Good(s, f) ==
  /\ IsSessionState(s) /\ SessionInv(s, f)
  /\ Cardinality(DOMAIN s.skipped) <= MaxSkippedKeys

\* Going from s to t gives no key derived so far back to the owner.
KeepsKeys(s, t, f) ==
  /\ t.cks # Nil =>
       (s.cks # Nil /\ t.cks.root = s.cks.root) \/ ~Below(t.cks.root, f)
  /\ \A mk \in ChainKey : Below(mk.root, f) =>
       /\ Spent(s, mk) => Spent(t, mk)
       /\ Consumed(s, mk) => Consumed(t, mk)
       /\ Foreign(s, mk) => Foreign(t, mk)

\* Key pairs of ratchet keys and chains are older than any later one.
LEMMA GoodMonotonic ==
  ASSUME NEW s, NEW f \in KeyPair, Good(s, f)
  PROVE  Good(s, f + 1)
<1>1. \A rk \in RootKey : Below(rk, f) => Below(rk, f + 1)
  BY DEF Below, RootKey, KeyPair
<1>2. /\ s.dhs \in Nat /\ s.dhr \in Nat \cup {Nil} /\ s.root \in RootKey
      /\ s.cks # Nil => s.cks.root \in RootKey
      /\ s.ckr # Nil => s.ckr.root \in RootKey
      /\ \A l \in DOMAIN s.skipped : s.skipped[l].root \in RootKey
  BY ChainKeys DEF Good, IsSessionState, IsSkippedMap, KeyPair
<1>3. f \in Nat
  BY DEF KeyPair
<1>4. SessionInv(s, f + 1)
  BY <1>1, <1>2, <1>3 DEF Good, SessionInv
<1> QED BY <1>4 DEF Good

\* A DH ratchet step to the peer's key d opens a chain deeper than every other.
LEMMA NewReceivingChain ==
  ASSUME NEW s, NEW f \in KeyPair, Good(s, f), NEW d \in KeyPair, d < f
  PROVE  LET t == newReceivingChain(s, d)
         IN  Good(t, f) /\ Receiving(t) /\ KeepsKeys(s, t, f)
<1> DEFINE t == newReceivingChain(s, d)
           rk == KDF_RK(s.root, DH(s.dhs, d))
<1>1. /\ DOMAIN t = DOMAIN s
      /\ t.dhs = s.dhs /\ t.dhr = d /\ t.root = rk /\ t.cks = s.cks
      /\ t.ns = s.ns /\ t.pn = s.pn /\ t.ckr = ChainOf(rk) /\ t.nr = 0
      /\ t.skipped = s.skipped
  BY DEF newReceivingChain, Good, IsSessionState
<1>2. s.root \in RootKey /\ s.dhs \in Nat /\ d \in Nat /\ f \in Nat /\ s.dhs < f
  BY DEF Good, IsSessionState, SessionInv, KeyPair
<1>3. /\ rk \in RootKey /\ Depth(s.root) \in Nat /\ Depth(rk) = Depth(s.root) + 1
      /\ Below(rk, f)
  <2>1. DH(s.dhs, d) \in SUBSET KeyPair /\ \A x \in DH(s.dhs, d) : x < f
    BY <1>2 DEF DH, KeyPair
  <2>2. Below(s.root, f)
    BY DEF Good, SessionInv
  <2> QED BY <1>2, <2>1, <2>2, RootKeyStep
<1>4. IsSessionState(t)
  BY <1>1, <1>3, ChainKeys DEF Good, IsSessionState
<1>5. /\ ChainOf(rk).root = rk /\ ChainOf(rk).step = 0 /\ ChainOf(rk) \in ChainKey
  BY <1>3, ChainKeys
<1>6. \A r \in RootKey : Depth(r) \in Nat
  BY DEF RootKey, Depth
<1>7. /\ s.cks # Nil => s.cks.root \in RootKey
      /\ \A l \in DOMAIN s.skipped : s.skipped[l].root \in RootKey
  BY ChainKeys DEF Good, IsSessionState, IsSkippedMap
<1>8. SessionInv(t, f)
  <2> HIDE DEF t, rk
  <2>1. /\ t.dhs < f /\ t.dhr < f /\ t.dhr # Nil /\ Below(t.root, f)
        /\ Below(t.ckr.root, f) /\ Depth(t.ckr.root) <= Depth(t.root)
    BY <1>1, <1>2, <1>3, <1>5, NilAssumption
  <2>2. t.cks # Nil => /\ Below(t.cks.root, f)
                       /\ Depth(t.cks.root) <= Depth(t.root)
                       /\ t.cks.root # t.ckr.root
    BY <1>1, <1>3, <1>5, <1>6, <1>7 DEF Good, SessionInv
  <2>3. \A l \in DOMAIN t.skipped :
          /\ Below(t.skipped[l].root, f)
          /\ Depth(t.skipped[l].root) <= Depth(t.root)
          /\ t.cks # Nil => t.skipped[l].root # t.cks.root
          /\ t.skipped[l].root # t.ckr.root
    BY <1>1, <1>3, <1>5, <1>6, <1>7 DEF Good, SessionInv
  <2>4. \A l1, l2 \in DOMAIN t.skipped : t.skipped[l1] = t.skipped[l2] => l1 = l2
    BY <1>1 DEF Good, SessionInv
  <2> QED BY <2>1, <2>2, <2>3, <2>4 DEF SessionInv
<1>9. KeepsKeys(s, t, f)
  <2> SUFFICES ASSUME NEW mk \in ChainKey
               PROVE  /\ Spent(s, mk) => Spent(t, mk)
                      /\ Consumed(s, mk) => Consumed(t, mk)
                      /\ Foreign(s, mk) => Foreign(t, mk)
    BY <1>1 DEF KeepsKeys
  <2>1. Depth(mk.root) \in Nat
    BY <1>6, ChainKeys
  <2> HIDE DEF t, rk
  <2> QED BY <1>1, <1>3, <1>5, <2>1 DEF Spent, Consumed, Foreign
<1>10. Receiving(t) /\ Good(t, f)
  <2> HIDE DEF t, rk
  <2> QED BY <1>1, <1>4, <1>5, <1>8 DEF Receiving, Good
<1> QED BY <1>9, <1>10

\* A DH ratchet step with the new key pair f opens a sending chain that no
\* other root key, of either party, can coincide with.
LEMMA NewSendingChain ==
  ASSUME NEW s, NEW f \in KeyPair, Good(s, f), s.dhr # Nil
  PROVE  LET t == dhRatchetSend(s, f)
         IN  /\ Good(t, f + 1) /\ KeepsKeys(s, t, f)
             /\ t.cks \in ChainKey /\ ~Below(t.cks.root, f)
             /\ t.cks.step = 0 /\ t.root = t.cks.root
             /\ t.ckr = s.ckr /\ t.dhr = s.dhr /\ t.dhs = f
             /\ t.skipped = s.skipped /\ t.nr = s.nr
<1> DEFINE t == dhRatchetSend(s, f)
           rk == KDF_RK(s.root, DH(f, s.dhr))
<1>1. /\ DOMAIN t = DOMAIN s
      /\ t.dhs = f /\ t.dhr = s.dhr /\ t.root = rk /\ t.cks = ChainOf(rk)
      /\ t.ns = 0 /\ t.pn = s.ns /\ t.ckr = s.ckr /\ t.nr = s.nr
      /\ t.skipped = s.skipped
  BY DEF dhRatchetSend, Good, IsSessionState
<1>2. /\ s.root \in RootKey /\ s.dhr \in Nat /\ f \in Nat /\ s.dhr < f
      /\ Below(s.root, f)
  BY DEF Good, IsSessionState, SessionInv, KeyPair
<1>3. /\ rk \in RootKey /\ Depth(s.root) \in Nat /\ Depth(rk) = Depth(s.root) + 1
      /\ Below(rk, f + 1) /\ ~Below(rk, f)
  <2>1. /\ DH(f, s.dhr) \in SUBSET KeyPair /\ f \in DH(f, s.dhr)
        /\ \A x \in DH(f, s.dhr) : x < f + 1
    BY <1>2 DEF DH, KeyPair
  <2>2. ~(f < f)
    BY <1>2
  <2>3. Below(s.root, f + 1)
    BY GoodMonotonic DEF Good, SessionInv
  <2> QED BY <1>2, <2>1, <2>2, <2>3, RootKeyStep
<1>4. ChainOf(rk).root = rk /\ ChainOf(rk).step = 0 /\ ChainOf(rk) \in ChainKey
  BY <1>3, ChainKeys
<1>5. IsSessionState(t)
  BY <1>1, <1>3, <1>4 DEF Good, IsSessionState
<1>6. \A r \in RootKey : Depth(r) \in Nat
  BY DEF RootKey, Depth
<1>7. /\ s.ckr # Nil => s.ckr.root \in RootKey
      /\ \A l \in DOMAIN s.skipped : s.skipped[l].root \in RootKey
  BY ChainKeys DEF Good, IsSessionState, IsSkippedMap
<1>8. SessionInv(t, f + 1)
  <2> HIDE DEF t, rk
  <2>a. SessionInv(s, f) /\ SessionInv(s, f + 1)
    BY GoodMonotonic DEF Good
  <2>1. /\ t.dhs < f + 1 /\ t.dhr < f + 1 /\ t.dhr # Nil /\ Below(t.root, f + 1)
        /\ Below(t.cks.root, f + 1) /\ Depth(t.cks.root) <= Depth(t.root)
    BY <1>1, <1>2, <1>3, <1>4
  <2>2. t.ckr # Nil => /\ Below(t.ckr.root, f + 1)
                       /\ Depth(t.ckr.root) <= Depth(t.root)
                       /\ t.cks.root # t.ckr.root
    BY <1>1, <1>3, <1>4, <1>6, <1>7, <2>a DEF SessionInv
  <2>3. \A l \in DOMAIN t.skipped :
          /\ Below(t.skipped[l].root, f + 1)
          /\ Depth(t.skipped[l].root) <= Depth(t.root)
          /\ t.skipped[l].root # t.cks.root
          /\ t.ckr # Nil /\ t.skipped[l].root = t.ckr.root
               => t.skipped[l].step < t.ckr.step
    BY <1>1, <1>3, <1>4, <1>6, <1>7, <2>a DEF SessionInv
  <2>4. \A l1, l2 \in DOMAIN t.skipped : t.skipped[l1] = t.skipped[l2] => l1 = l2
    BY <1>1, <2>a DEF SessionInv
  <2> QED BY <2>1, <2>2, <2>3, <2>4 DEF SessionInv
<1>9. KeepsKeys(s, t, f)
  <2> SUFFICES ASSUME NEW mk \in ChainKey, Below(mk.root, f)
               PROVE  /\ Spent(s, mk) => Spent(t, mk)
                      /\ Consumed(s, mk) => Consumed(t, mk)
                      /\ Foreign(s, mk) => Foreign(t, mk)
    BY <1>1, <1>3, <1>4 DEF KeepsKeys
  <2>1. Depth(mk.root) \in Nat
    BY <1>6, ChainKeys
  <2>2. mk.root # rk
    BY <1>3
  <2> HIDE DEF t, rk
  <2> QED BY <1>1, <1>3, <1>4, <2>1, <2>2 DEF Spent, Consumed, Foreign
<1>10. Good(t, f + 1)
  <2> HIDE DEF t
  <2> QED BY <1>1, <1>5, <1>8 DEF Good
<1> HIDE DEF t, rk
<1>11. t.cks \in ChainKey /\ ~Below(t.cks.root, f) /\ t.cks.step = 0 /\ t.root = t.cks.root
  BY <1>1, <1>3, <1>4
<1> QED BY <1>1, <1>9, <1>10, <1>11 DEF t

\* The chain at counter n with the keys before it cached: what the loops of
\* advanceReceivingChain, cacheSkippedKeys and skipMessages do together.
AtCounter(s, t, n) ==
  /\ IsSessionState(t)
  /\ t.dhs = s.dhs /\ t.dhr = s.dhr /\ t.root = s.root /\ t.cks = s.cks
  /\ t.ckr = KDF_CKn(s.ckr, n - s.nr) /\ t.nr = n
  /\ CacheGrows(s, t.skipped, n)
  /\ Cardinality(DOMAIN t.skipped) <= MaxSkippedKeys

\* Moving along the receiving chain puts in the cache only keys that nobody has
\* consumed, each once.
LEMMA MoveAlongChain ==
  ASSUME NEW s, NEW f \in KeyPair, Good(s, f), Receiving(s), s.ckr # Nil,
         NEW n \in Nat, s.nr <= n, NEW t, AtCounter(s, t, n)
  PROVE  Good(t, f) /\ Receiving(t) /\ KeepsKeys(s, t, f)
<1>1. /\ s.nr \in Nat /\ n - s.nr \in Nat /\ s.ckr \in ChainKey
      /\ t.ckr \in ChainKey /\ t.ckr.root = s.ckr.root
      /\ t.ckr.step = s.ckr.step + (n - s.nr) /\ s.ckr.step \in Nat
  <2>1. s.nr \in Nat /\ s.ckr \in ChainKey
    BY DEF Receiving, IsSessionState
  <2>2. PICK k \in Nat : k = n - s.nr
    BY <2>1
  <2>3. /\ KDF_CKn(s.ckr, k) \in ChainKey
        /\ KDF_CKn(s.ckr, k).root = s.ckr.root
        /\ KDF_CKn(s.ckr, k).step = s.ckr.step + k
        /\ s.ckr.step \in Nat
    BY <2>1, ChainKeys
  <2> QED BY <2>1, <2>2, <2>3 DEF AtCounter
<1>2. \A l \in DOMAIN t.skipped :
        \/ l \in DOMAIN s.skipped /\ t.skipped[l] = s.skipped[l]
        \/ /\ l \in Label /\ l[1] = s.dhr /\ l[2] \in Nat
           /\ t.skipped[l] \in ChainKey
           /\ t.skipped[l].root = s.ckr.root
           /\ t.skipped[l].step = s.ckr.step + (l[2] - s.nr)
           /\ s.ckr.step <= t.skipped[l].step
           /\ t.skipped[l].step < t.ckr.step
  <2> SUFFICES ASSUME NEW l \in DOMAIN t.skipped,
                      l \in Label, l[1] = s.dhr, l[2] \in s.nr .. (n - 1),
                      t.skipped[l] = KDF_CKn(s.ckr, l[2] - s.nr)
               PROVE  /\ l[2] \in Nat
                      /\ t.skipped[l] \in ChainKey
                      /\ t.skipped[l].root = s.ckr.root
                      /\ t.skipped[l].step = s.ckr.step + (l[2] - s.nr)
                      /\ s.ckr.step <= t.skipped[l].step
                      /\ t.skipped[l].step < t.ckr.step
    BY DEF AtCounter, CacheGrows
  <2>1. l[2] \in Nat /\ l[2] - s.nr \in Nat /\ l[2] < n
    BY <1>1
  <2>2. /\ t.skipped[l] \in ChainKey
        /\ t.skipped[l].root = s.ckr.root
        /\ t.skipped[l].step = s.ckr.step + (l[2] - s.nr)
    <3>1. PICK k \in Nat : k = l[2] - s.nr
      BY <2>1
    <3>2. /\ KDF_CKn(s.ckr, k) \in ChainKey
          /\ KDF_CKn(s.ckr, k).root = s.ckr.root
          /\ KDF_CKn(s.ckr, k).step = s.ckr.step + k
      BY <1>1, ChainKeys
    <3> QED BY <3>1, <3>2
  <2> QED BY <1>1, <2>1, <2>2
<1>3. /\ t.dhs = s.dhs /\ t.dhr = s.dhr /\ t.root = s.root /\ t.cks = s.cks
      /\ IsSessionState(t) /\ Cardinality(DOMAIN t.skipped) <= MaxSkippedKeys
  BY DEF AtCounter
<1>4. SessionInv(s, f)
  BY DEF Good
<1>5. \A l \in DOMAIN s.skipped :
        s.skipped[l] \in ChainKey /\ s.skipped[l].step \in Nat
  BY ChainKeys DEF Receiving, IsSessionState, IsSkippedMap
<1>6. \A l1, l2 \in DOMAIN t.skipped : t.skipped[l1] = t.skipped[l2] => l1 = l2
  <2> SUFFICES ASSUME NEW l1 \in DOMAIN t.skipped, NEW l2 \in DOMAIN t.skipped,
                      t.skipped[l1] = t.skipped[l2]
               PROVE  l1 = l2
    OBVIOUS
  <2> DEFINE Old(l) == l \in DOMAIN s.skipped /\ t.skipped[l] = s.skipped[l]
             New(l) == /\ l \in Label /\ l[1] = s.dhr /\ l[2] \in Nat
                       /\ t.skipped[l].root = s.ckr.root
                       /\ t.skipped[l].step = s.ckr.step + (l[2] - s.nr)
                       /\ s.ckr.step <= t.skipped[l].step
  <2>1. (Old(l1) \/ New(l1)) /\ (Old(l2) \/ New(l2))
    BY <1>2
  <2>2. CASE Old(l1) /\ Old(l2)
    BY <1>4, <2>2 DEF SessionInv
  <2>3. CASE New(l1) /\ New(l2)
    <3>1. l1[1] = l2[1] /\ l1[2] = l2[2]
      BY <1>1, <2>3
    <3> QED BY <2>3, <3>1 DEF Label
  <2>4. ~(Old(l1) /\ New(l2)) /\ ~(Old(l2) /\ New(l1))
    <3>1. ASSUME NEW l \in DOMAIN s.skipped, s.skipped[l].root = s.ckr.root
          PROVE  ~(s.ckr.step <= s.skipped[l].step)
      BY <1>1, <1>4, <1>5, <3>1 DEF SessionInv
    <3> QED BY <3>1
  <2> QED BY <2>1, <2>2, <2>3, <2>4
<1>7. SessionInv(t, f)
  <2>1. /\ t.dhs < f /\ (t.dhr # Nil => t.dhr < f) /\ t.dhr # Nil
        /\ Below(t.root, f)
        /\ t.cks # Nil => Below(t.cks.root, f) /\ Depth(t.cks.root) <= Depth(t.root)
        /\ Below(t.ckr.root, f) /\ Depth(t.ckr.root) <= Depth(t.root)
        /\ t.cks # Nil => t.cks.root # t.ckr.root
    BY <1>1, <1>3, <1>4 DEF SessionInv
  <2>2. \A l \in DOMAIN t.skipped :
          /\ Below(t.skipped[l].root, f)
          /\ Depth(t.skipped[l].root) <= Depth(t.root)
          /\ t.cks # Nil => t.skipped[l].root # t.cks.root
          /\ t.skipped[l].root = t.ckr.root => t.skipped[l].step < t.ckr.step
    <3> SUFFICES ASSUME NEW l \in DOMAIN t.skipped
                 PROVE  /\ Below(t.skipped[l].root, f)
                        /\ Depth(t.skipped[l].root) <= Depth(t.root)
                        /\ t.cks # Nil => t.skipped[l].root # t.cks.root
                        /\ t.skipped[l].root = t.ckr.root
                             => t.skipped[l].step < t.ckr.step
      OBVIOUS
    <3>1. CASE l \in DOMAIN s.skipped /\ t.skipped[l] = s.skipped[l]
      BY <1>1, <1>3, <1>4, <1>5, <3>1 DEF SessionInv
    <3>2. CASE ~(l \in DOMAIN s.skipped /\ t.skipped[l] = s.skipped[l])
      BY <1>1, <1>2, <1>3, <2>1, <3>2
    <3> QED BY <3>1, <3>2
  <2> QED BY <1>6, <2>1, <2>2 DEF SessionInv
<1>8. KeepsKeys(s, t, f)
  <2> SUFFICES ASSUME NEW mk \in ChainKey
               PROVE  /\ Spent(s, mk) => Spent(t, mk)
                      /\ Consumed(s, mk) => Consumed(t, mk)
                      /\ Foreign(s, mk) => Foreign(t, mk)
    BY <1>3 DEF KeepsKeys
  <2>1. mk.step \in Nat
    BY ChainKeys
  <2>2. Spent(s, mk) => Spent(t, mk)
    BY <1>1, <1>2, <1>3 DEF Spent
  <2>3. Consumed(s, mk) => Consumed(t, mk)
    BY <1>1, <1>2, <1>3, <2>1 DEF Consumed
  <2>4. Foreign(s, mk) => Foreign(t, mk)
    BY <1>3 DEF Foreign
  <2> QED BY <2>2, <2>3, <2>4
<1>9. Receiving(t)
  BY <1>1, <1>3 DEF Receiving
<1> QED BY <1>3, <1>7, <1>8, <1>9 DEF Good

\* advanceReceivingChain, and cacheSkippedKeys before a DH ratchet step.
LEMMA AdvanceReceivingChain ==
  ASSUME NEW s, NEW f \in KeyPair, Good(s, f), Receiving(s), NEW n \in Nat
  PROVE  LET t == advanceReceivingChain(s, n)
         IN  Good(t, f) /\ Receiving(t) /\ KeepsKeys(s, t, f)
<1> DEFINE t == advanceReceivingChain(s, n)
<1>1. CASE ~(s.nr < n)
  BY <1>1 DEF advanceReceivingChain, KeepsKeys
<1>2. CASE s.nr < n
  <2>1. /\ DOMAIN t = DOMAIN s
        /\ t.dhs = s.dhs /\ t.dhr = s.dhr /\ t.root = s.root /\ t.cks = s.cks
        /\ t.ns = s.ns /\ t.pn = s.pn
        /\ t.ckr = KDF_CKn(s.ckr, n - s.nr) /\ t.nr = n
        /\ t.skipped = CacheKeys(s, n)
    BY <1>2 DEF advanceReceivingChain, Receiving, IsSessionState
  <2>2. t.ckr \in ChainKey /\ s.ckr # Nil
    <3>1. s.ckr \in ChainKey /\ s.nr \in Nat
      BY DEF Receiving, IsSessionState
    <3>2. PICK k \in Nat : k = n - s.nr
      BY <1>2, <3>1
    <3>3. KDF_CKn(s.ckr, k) \in ChainKey
      BY <3>1, ChainKeys
    <3> QED BY <2>1, <3>1, <3>2, <3>3, NilAssumption
  <2>3. AtCounter(s, t, n)
    <3> HIDE DEF t
    <3>1. IsSkippedMap(t.skipped) /\ CacheGrows(s, t.skipped, n)
      BY <2>1, CacheKeysGrows
    <3>2. IsSessionState(t)
      BY <2>1, <2>2, <3>1 DEF Receiving, IsSessionState
    <3>3. Cardinality(DOMAIN t.skipped) <= MaxSkippedKeys
      BY <2>1, CacheKeysBounded DEF Good
    <3> QED BY <2>1, <3>1, <3>2, <3>3 DEF AtCounter
  <2>4. s.nr <= n
    BY <1>2 DEF Receiving, IsSessionState
  <2> HIDE DEF t
  <2> QED BY <2>2, <2>3, <2>4, MoveAlongChain DEF t
<1> QED BY <1>1, <1>2

\* Decrypt's catch-up: skipMessages caches the skipped keys without moving the
\* chain, and advanceReceivingChain caches the same keys again while moving it.
LEMMA NextMessageKey ==
  ASSUME NEW s, NEW f \in KeyPair, Good(s, f), Receiving(s),
         NEW h, h.n \in Nat
  PROVE  LET t == nextMessageKey(s, h)
         IN  Good(t, f) /\ Receiving(t) /\ KeepsKeys(s, t, f)
<1> DEFINE n == h.n
           x == skipMessages(s, n)
           t == nextMessageKey(s, h)
<1>1. CASE ~(h.n > s.nr)
  BY <1>1, AdvanceReceivingChain DEF nextMessageKey
<1>2. CASE h.n > s.nr
  <2>0. s.nr \in Nat /\ s.ckr \in ChainKey /\ s.dhr \in KeyPair /\ s.nr < n /\ s.nr <= n
    BY <1>2 DEF Receiving, IsSessionState
  <2>1. /\ DOMAIN x = DOMAIN s
        /\ x.dhs = s.dhs /\ x.dhr = s.dhr /\ x.root = s.root /\ x.cks = s.cks
        /\ x.ns = s.ns /\ x.pn = s.pn /\ x.ckr = s.ckr /\ x.nr = s.nr
        /\ x.skipped = CacheKeys(s, n)
    BY DEF skipMessages, Receiving, IsSessionState
  <2>2. /\ CacheGrows(s, x.skipped, n) /\ IsSkippedMap(x.skipped)
        /\ Cardinality(DOMAIN x.skipped) <= MaxSkippedKeys
    BY <2>1, CacheKeysGrows, CacheKeysBounded DEF Good
  <2>3. IsSessionState(x) /\ Receiving(x)
    <3> HIDE DEF x
    <3> QED BY <2>0, <2>1, <2>2 DEF Receiving, IsSessionState
  <2>4. t = advanceReceivingChain(x, n)
    BY <1>2 DEF nextMessageKey
  <2>5. /\ DOMAIN t = DOMAIN s
        /\ t.dhs = s.dhs /\ t.dhr = s.dhr /\ t.root = s.root /\ t.cks = s.cks
        /\ t.ns = s.ns /\ t.pn = s.pn
        /\ t.ckr = KDF_CKn(s.ckr, n - s.nr) /\ t.nr = n
        /\ t.skipped = CacheKeys(x, n)
    <3> HIDE DEF x, t
    <3> QED BY <2>0, <2>1, <2>3, <2>4 DEF advanceReceivingChain, IsSessionState
  <2>6. /\ CacheGrows(x, t.skipped, n) /\ IsSkippedMap(t.skipped)
        /\ Cardinality(DOMAIN t.skipped) <= MaxSkippedKeys
    <3> HIDE DEF x, t
    <3> QED BY <2>2, <2>3, <2>5, CacheKeysGrows, CacheKeysBounded
  <2>7. CacheGrows(s, t.skipped, n)
    <3> HIDE DEF x, t
    <3> QED BY <2>1, <2>2, <2>6 DEF CacheGrows
  <2>8. t.ckr \in ChainKey /\ s.ckr # Nil
    <3>1. PICK k \in Nat : k = n - s.nr
      BY <2>0
    <3>2. KDF_CKn(s.ckr, k) \in ChainKey
      BY <2>0, ChainKeys
    <3> QED BY <2>0, <2>5, <3>1, <3>2, NilAssumption
  <2>9. AtCounter(s, t, n)
    <3> HIDE DEF x, t
    <3>1. IsSessionState(t)
      BY <2>5, <2>6, <2>8 DEF Receiving, IsSessionState
    <3> QED BY <2>5, <2>6, <2>7, <3>1 DEF AtCounter
  <2> HIDE DEF t
  <2> QED BY <2>0, <2>8, <2>9, MoveAlongChain DEF t
<1> QED BY <1>1, <1>2

\* Stepping the receiving chain consumes the key it stood at.
LEMMA ConsumeKey ==
  ASSUME NEW s, NEW f \in KeyPair, Good(s, f), Receiving(s)
  PROVE  LET t == consumeKey(s)
         IN  Good(t, f) /\ Receiving(t) /\ KeepsKeys(s, t, f) /\ Consumed(t, s.ckr)
<1> DEFINE t == consumeKey(s)
<1>1. /\ DOMAIN t = DOMAIN s
      /\ t.dhs = s.dhs /\ t.dhr = s.dhr /\ t.root = s.root /\ t.cks = s.cks
      /\ t.ns = s.ns /\ t.pn = s.pn
      /\ t.ckr = KDF_CK(s.ckr) /\ t.nr = s.nr + 1 /\ t.skipped = s.skipped
  BY DEF consumeKey, Receiving, IsSessionState
<1>2. /\ s.ckr \in ChainKey /\ s.ckr # Nil /\ s.ckr.step \in Nat
      /\ t.ckr \in ChainKey /\ t.ckr.root = s.ckr.root
      /\ t.ckr.step = s.ckr.step + 1 /\ s.nr \in Nat
  BY <1>1, ChainKeys, NilAssumption DEF Receiving, IsSessionState
<1> HIDE DEF t
<1>3. IsSessionState(t) /\ Receiving(t)
  BY <1>1, <1>2 DEF Receiving, IsSessionState
<1>4. \A l \in DOMAIN s.skipped : s.skipped[l] \in ChainKey /\ s.skipped[l].step \in Nat
  BY ChainKeys DEF Receiving, IsSessionState, IsSkippedMap
<1>5. SessionInv(s, f)
  BY DEF Good
<1>6. SessionInv(t, f)
  BY <1>1, <1>2, <1>4, <1>5 DEF SessionInv
<1>7. KeepsKeys(s, t, f)
  <2> SUFFICES ASSUME NEW mk \in ChainKey
               PROVE  /\ Spent(s, mk) => Spent(t, mk)
                      /\ Consumed(s, mk) => Consumed(t, mk)
                      /\ Foreign(s, mk) => Foreign(t, mk)
    BY <1>1 DEF KeepsKeys
  <2>1. mk.step \in Nat
    BY ChainKeys
  <2> QED BY <1>1, <1>2, <2>1 DEF Spent, Consumed, Foreign
<1>8. Consumed(t, s.ckr)
  <2>1. \A l \in DOMAIN s.skipped : s.skipped[l] # s.ckr
    BY <1>2, <1>4, <1>5 DEF SessionInv
  <2> QED BY <1>1, <1>2, <1>5, <2>1 DEF Consumed, SessionInv
<1>9. Good(t, f)
  BY <1>1, <1>3, <1>6 DEF Good
<1> QED BY <1>3, <1>7, <1>8, <1>9 DEF t

\* Taking a key out of the cache consumes it.
LEMMA GetSkippedKey ==
  ASSUME NEW s, NEW f \in KeyPair, Good(s, f), NEW h, HasSkippedKey(s, h)
  PROVE  LET t == getSkippedKey(s, h)
         IN  /\ Good(t, f) /\ (Receiving(s) => Receiving(t)) /\ KeepsKeys(s, t, f)
             /\ t.ckr = s.ckr /\ t.dhr = s.dhr
             /\ Consumed(t, s.skipped[<<h.dh, h.n>>])
<1> DEFINE t == getSkippedKey(s, h)
           l0 == <<h.dh, h.n>>
           D == DOMAIN s.skipped \ {l0}
<1>1. /\ DOMAIN t = DOMAIN s
      /\ t.dhs = s.dhs /\ t.dhr = s.dhr /\ t.root = s.root /\ t.cks = s.cks
      /\ t.ns = s.ns /\ t.pn = s.pn /\ t.ckr = s.ckr /\ t.nr = s.nr
      /\ t.skipped = [l \in D |-> s.skipped[l]]
  BY DEF getSkippedKey, Restrict, Good, IsSessionState
<1>2. DOMAIN t.skipped = D /\ \A l \in D : t.skipped[l] = s.skipped[l]
  BY <1>1
<1>3. /\ IsFiniteSet(DOMAIN s.skipped) /\ D \subseteq DOMAIN s.skipped
      /\ IsFiniteSet(D) /\ Cardinality(D) <= Cardinality(DOMAIN s.skipped)
      /\ Cardinality(D) \in Nat /\ Cardinality(DOMAIN s.skipped) \in Nat
  <2>1. IsFiniteSet(DOMAIN s.skipped) /\ D \subseteq DOMAIN s.skipped
    BY DEF Good, IsSessionState, IsSkippedMap
  <2> QED BY <2>1, FS_Subset, FS_CardinalityType
<1> HIDE DEF t
<1>4. IsSkippedMap(t.skipped)
  BY <1>1, <1>2, <1>3 DEF Good, IsSessionState, IsSkippedMap
<1>5. IsSessionState(t) /\ (Receiving(s) => Receiving(t))
  BY <1>1, <1>4 DEF Good, IsSessionState, Receiving
<1>6. SessionInv(s, f) /\ l0 \in DOMAIN s.skipped
  BY DEF Good, HasSkippedKey
<1>7. SessionInv(t, f)
  BY <1>1, <1>2, <1>3, <1>6 DEF SessionInv
<1>8. KeepsKeys(s, t, f)
  BY <1>1, <1>2, <1>3 DEF KeepsKeys, Spent, Consumed, Foreign
<1>9. Consumed(t, s.skipped[l0])
  <2>1. \A l \in DOMAIN t.skipped : t.skipped[l] # s.skipped[l0]
    BY <1>2, <1>3, <1>6 DEF SessionInv
  <2> HIDE DEF l0
  <2> QED BY <1>1, <1>6, <2>1 DEF Consumed, SessionInv
<1>10. Cardinality(DOMAIN t.skipped) <= MaxSkippedKeys
  BY <1>2, <1>3, MaxSkippedAssumption DEF Good
<1> QED BY <1>1, <1>5, <1>7, <1>8, <1>9, <1>10 DEF Good, t

LEMMA KeepsKeysTransitive ==
  ASSUME NEW s, NEW t, NEW u, NEW f, KeepsKeys(s, t, f), KeepsKeys(t, u, f)
  PROVE  KeepsKeys(s, u, f)
BY DEF KeepsKeys

LEMMA KeepsKeysWeaken ==
  ASSUME NEW s, NEW t, NEW f \in KeyPair, IsSessionState(t), KeepsKeys(s, t, f + 1)
  PROVE  KeepsKeys(s, t, f)
<1>1. \A rk \in RootKey : Below(rk, f) => Below(rk, f + 1)
  BY DEF Below, RootKey, KeyPair
<1>2. t.cks # Nil => t.cks.root \in RootKey
  BY ChainKeys DEF IsSessionState
<1>3. \A mk \in ChainKey : mk.root \in RootKey
  BY ChainKeys
<1> QED BY <1>1, <1>2, <1>3 DEF KeepsKeys

\* The key pair that is next after Decrypt has followed header h in state s.
NextFresh(s, h, f) == IF NeedsRatchet(s, h) THEN f + 1 ELSE f

\* Decrypt's first part: no ratchet step, the first one, or a full one.
LEMMA FollowHeader ==
  ASSUME NEW s, NEW f \in KeyPair, Good(s, f),
         NEW h, h.dh \in KeyPair, h.dh < f, h.pn \in Nat
  PROVE  LET t == followHeader(s, h, f)
         IN  /\ Good(t, NextFresh(s, h, f)) /\ KeepsKeys(s, t, f)
             /\ t.dhr \in KeyPair
<1> DEFINE t == followHeader(s, h, f)
<1>1. CASE NeedsRatchet(s, h)
  <2> DEFINE x == cacheSkippedKeys(s, h.pn)
             y == newReceivingChain(x, h.dh)
             z == dhRatchetSend(y, f)
  <2>1. t = z /\ NextFresh(s, h, f) = f + 1
    BY <1>1 DEF followHeader, dhRatchetReceive, NextFresh
  <2>2. Good(x, f) /\ KeepsKeys(s, x, f)
    <3>1. CASE s.ckr = Nil
      BY <3>1 DEF cacheSkippedKeys, KeepsKeys
    <3>2. CASE s.ckr # Nil
      <4>1. Receiving(s)
        BY <1>1, <3>2 DEF Good, IsSessionState, Receiving, NeedsRatchet
      <4> QED BY <3>2, <4>1, AdvanceReceivingChain DEF cacheSkippedKeys
    <3> QED BY <3>1, <3>2
  <2> HIDE DEF x
  <2>3. Good(y, f) /\ Receiving(y) /\ KeepsKeys(x, y, f)
    BY <2>2, NewReceivingChain
  <2> HIDE DEF y
  <2>4. y.dhr \in KeyPair /\ y.dhr # Nil
    BY <2>3, NilAssumption DEF Receiving
  <2>5. Good(z, f + 1) /\ KeepsKeys(y, z, f) /\ z.dhr = y.dhr
    BY <2>3, <2>4, NewSendingChain
  <2> HIDE DEF z
  <2> QED BY <2>1, <2>2, <2>3, <2>4, <2>5, KeepsKeysTransitive
<1>2. CASE ~NeedsRatchet(s, h) /\ s.dhr = Nil
  <2>1. t = newReceivingChain(s, h.dh) /\ NextFresh(s, h, f) = f
    BY <1>2 DEF followHeader, NextFresh
  <2>2. Good(t, f) /\ Receiving(t) /\ KeepsKeys(s, t, f)
    BY <2>1, NewReceivingChain
  <2> QED BY <2>1, <2>2 DEF Receiving
<1>3. CASE ~NeedsRatchet(s, h) /\ s.dhr # Nil
  BY <1>3 DEF followHeader, NextFresh, KeepsKeys, Good, IsSessionState
<1> QED BY <1>1, <1>2, <1>3

\* Decrypt as a whole: the state v it leaves behind is good, holds no key that
\* was gone, and no longer holds the key of the message if that was opened.
LEMMA DecryptState ==
  ASSUME NEW p \in Party, Good(st[p], fresh), DOMAIN st = Party, fresh \in KeyPair,
         NEW m \in Message, m.dh < fresh, Decrypt(p, m)
  PROVE  /\ fresh' = NextFresh(st[p], m, fresh)
         /\ \E v : /\ st' = [st EXCEPT ![p] = v]
                   /\ Good(v, fresh') /\ KeepsKeys(st[p], v, fresh)
                   /\ \/ Consumed(v, m.mk) /\ Accept(p, m)
                      \/ Reject(p, m)
<1> DEFINE s == followHeader(st[p], m, fresh)
           t == IF HasSkippedKey(s, m) THEN getSkippedKey(s, m) ELSE s
           u == nextMessageKey(t, m)
           g == NextFresh(st[p], m, fresh)
           opens == HasSkippedKey(s, m) /\ s.skipped[<<m.dh, m.n>>] = m.mk
<1>0. m.dh \in KeyPair /\ m.pn \in Nat /\ m.n \in Nat /\ m.mk \in ChainKey
  BY DEF Message
<1>1. fresh' = g /\ g \in KeyPair /\ (g = fresh \/ g = fresh + 1)
  BY DEF Decrypt, NextFresh, KeyPair
<1>2. Good(s, g) /\ KeepsKeys(st[p], s, fresh) /\ s.dhr \in KeyPair
  BY <1>0, FollowHeader
<1>3. \/ opens /\ st' = [st EXCEPT ![p] = t] /\ Accept(p, m)
      \/ /\ ~opens /\ t.ckr # Nil
         /\ st' = [st EXCEPT ![p] = consumeKey(u)]
         /\ (IF u.ckr = m.mk THEN Accept(p, m) ELSE Reject(p, m))
  BY DEF Decrypt
<1> HIDE DEF s, g
<1>4. /\ Good(t, g) /\ KeepsKeys(s, t, g) /\ t.dhr \in KeyPair
      /\ HasSkippedKey(s, m) => Consumed(t, s.skipped[<<m.dh, m.n>>])
  <2>1. CASE HasSkippedKey(s, m)
    BY <1>1, <1>2, <2>1, GetSkippedKey
  <2>2. CASE ~HasSkippedKey(s, m)
    BY <1>2, <2>2 DEF KeepsKeys
  <2> QED BY <2>1, <2>2
<1> HIDE DEF t
<1>5. KeepsKeys(st[p], t, fresh)
  <2>1. KeepsKeys(s, t, fresh)
    BY <1>1, <1>4, KeepsKeysWeaken DEF Good
  <2> QED BY <1>2, <2>1, KeepsKeysTransitive
<1>6. CASE opens /\ st' = [st EXCEPT ![p] = t] /\ Accept(p, m)
  BY <1>1, <1>4, <1>5, <1>6 DEF g
<1>7. CASE /\ ~opens /\ t.ckr # Nil
           /\ st' = [st EXCEPT ![p] = consumeKey(u)]
           /\ (IF u.ckr = m.mk THEN Accept(p, m) ELSE Reject(p, m))
  <2>1. Receiving(t)
    BY <1>4, <1>7 DEF Good, Receiving, IsSessionState
  <2>2. Good(u, g) /\ Receiving(u) /\ KeepsKeys(t, u, g)
    BY <1>0, <1>1, <1>4, <2>1, NextMessageKey
  <2> HIDE DEF u
  <2> DEFINE v == consumeKey(u)
  <2>3. Good(v, g) /\ KeepsKeys(u, v, g) /\ Consumed(v, u.ckr)
    BY <1>1, <2>2, ConsumeKey
  <2> HIDE DEF v
  <2>4. KeepsKeys(t, u, fresh) /\ KeepsKeys(u, v, fresh)
    BY <1>1, <2>2, <2>3, KeepsKeysWeaken DEF Good
  <2>5. KeepsKeys(st[p], v, fresh)
    BY <1>5, <2>4, KeepsKeysTransitive
  <2>6. st' = [st EXCEPT ![p] = v]
    BY <1>7 DEF v
  <2>7. (Consumed(v, m.mk) /\ Accept(p, m)) \/ Reject(p, m)
    BY <1>7, <2>3
  <2>8. Good(v, fresh')
    BY <1>1, <2>3
  <2>9. \E w : /\ st' = [st EXCEPT ![p] = w]
               /\ Good(w, fresh') /\ KeepsKeys(st[p], w, fresh)
               /\ \/ Consumed(w, m.mk) /\ Accept(p, m)
                  \/ Reject(p, m)
    BY <2>5, <2>6, <2>7, <2>8
  <2> QED BY <1>1, <2>9 DEF g
<1> QED BY <1>3, <1>6, <1>7

\* Encrypt as a whole: the key that seals the message leaves the sender's state.
LEMMA EncryptState ==
  ASSUME NEW s0, NEW f \in KeyPair, Good(s0, f), CanEncrypt(s0),
         NEW s, s = encryptState(s0, f), NEW v, v = sealState(s),
         NEW g, g = (IF s0.cks = Nil THEN f + 1 ELSE f)
  PROVE  /\ g \in KeyPair /\ Good(v, g) /\ KeepsKeys(s0, v, f) /\ Spent(v, s.cks)
         /\ s.cks \in ChainKey /\ Below(s.cks.root, g)
         /\ s.dhs \in KeyPair /\ s.dhs < g /\ s.pn \in Nat /\ s.ns \in Nat
         /\ (s0.cks # Nil /\ s.cks = s0.cks) \/ ~Below(s.cks.root, f)
<1>1. /\ Good(s, g) /\ KeepsKeys(s0, s, f) /\ g \in KeyPair /\ (g = f \/ g = f + 1)
      /\ s.cks \in ChainKey
      /\ (s0.cks # Nil /\ s.cks = s0.cks) \/ ~Below(s.cks.root, f)
  <2>1. CASE s0.cks = Nil
    <3>1. s0.dhr # Nil
      BY <2>1 DEF CanEncrypt
    <3> QED BY <2>1, <3>1, NewSendingChain DEF KeyPair, encryptState
  <2>2. CASE s0.cks # Nil
    BY <2>2 DEF KeepsKeys, Good, IsSessionState, encryptState
  <2> QED BY <2>1, <2>2
<1>2. IsSessionState(s) /\ SessionInv(s, g) /\ s.cks # Nil
  BY <1>1, NilAssumption DEF Good
<1>3. /\ DOMAIN v = DOMAIN s
      /\ v.dhs = s.dhs /\ v.dhr = s.dhr /\ v.root = s.root /\ v.cks = KDF_CK(s.cks)
      /\ v.ns = s.ns + 1 /\ v.pn = s.pn /\ v.ckr = s.ckr /\ v.nr = s.nr
      /\ v.skipped = s.skipped
  BY <1>2 DEF IsSessionState, sealState
<1>4. /\ v.cks \in ChainKey /\ v.cks # Nil /\ v.cks.root = s.cks.root
      /\ s.cks.step \in Nat /\ v.cks.step = s.cks.step + 1
  <2>1. PICK c \in ChainKey : c = s.cks /\ v.cks = KDF_CK(c)
    BY <1>1, <1>3
  <2>2. KDF_CK(c) \in ChainKey /\ KDF_CK(c).root = c.root
        /\ c.step \in Nat /\ KDF_CK(c).step = c.step + 1
    BY ChainKeys
  <2> QED BY <2>1, <2>2, NilAssumption
<1>5. IsSessionState(v)
  BY <1>2, <1>3, <1>4 DEF IsSessionState
<1>6. SessionInv(v, g)
  BY <1>2, <1>3, <1>4 DEF SessionInv
<1>7. Good(v, g)
  BY <1>1, <1>3, <1>5, <1>6 DEF Good
<1>8. KeepsKeys(s, v, f)
  <2> SUFFICES ASSUME NEW mk \in ChainKey
               PROVE  /\ Spent(s, mk) => Spent(v, mk)
                      /\ Consumed(s, mk) => Consumed(v, mk)
                      /\ Foreign(s, mk) => Foreign(v, mk)
    BY <1>2, <1>4 DEF KeepsKeys
  <2>1. mk.step \in Nat
    BY ChainKeys
  <2> QED BY <1>2, <1>3, <1>4, <2>1 DEF Spent, Consumed, Foreign
<1>9. KeepsKeys(s0, v, f)
  BY <1>1, <1>8, KeepsKeysTransitive
<1>10. Spent(v, s.cks)
  BY <1>2, <1>3, <1>4 DEF Spent, SessionInv
<1>11. /\ Below(s.cks.root, g) /\ s.dhs \in KeyPair /\ s.dhs < g
       /\ s.pn \in Nat /\ s.ns \in Nat
  BY <1>2 DEF IsSessionState, SessionInv
<1> QED BY <1>1, <1>7, <1>9, <1>10, <1>11

-----------------------------------------------------------------------------
(* The inductive invariant *)

LEMMA Parties ==
  /\ \A p \in Party : Peer(p) \in Party /\ Peer(p) # p /\ Peer(Peer(p)) = p
  /\ \A p, q \in Party : q = p \/ q = Peer(p)
BY PartyAssumption DEF Party, Peer

LEMMA RemoveAtType ==
  ASSUME NEW S, NEW q \in Seq(S), NEW i \in DOMAIN q
  PROVE  RemoveAt(q, i) \in Seq(S)
<1>1. i \in 1 .. Len(q) /\ Len(q) \in Nat
  OBVIOUS
<1>2. SubSeq(q, 1, i - 1) \in Seq(S) /\ SubSeq(q, i + 1, Len(q)) \in Seq(S)
  BY <1>1
<1> QED BY <1>2 DEF RemoveAt

LEMMA SharedSecretType ==
  ASSUME NEW a \in KeyPair, NEW b \in KeyPair, NEW c \in KeyPair, NEW e \in KeyPair,
         NEW o \in KeyPair \cup {Nil}
  PROVE  /\ X3DHInitiator(a, b, c, o, e) \in SharedSecret
         /\ X3DHResponder(b, c, o, a, e) \in SharedSecret
<1>1. \A x, y \in KeyPair : DH(x, y) \in SUBSET KeyPair
  BY DEF DH
<1>2. ASSUME NEW x \in SUBSET KeyPair, NEW y \in SUBSET KeyPair,
             NEW z \in SUBSET KeyPair, NEW w
      PROVE  /\ <<x, y, z>> \in Seq(SUBSET KeyPair)
             /\ w \in SUBSET KeyPair
                  => Append(<<x, y, z>>, w) \in Seq(SUBSET KeyPair)
  OBVIOUS
<1>3. <<a, b>> \in KeyPair \X KeyPair
  OBVIOUS
<1>4. X3DHInitiator(a, b, c, o, e).dhs \in Seq(SUBSET KeyPair)
  BY <1>1, <1>2 DEF X3DHInitiator
<1>5. X3DHResponder(b, c, o, a, e).dhs \in Seq(SUBSET KeyPair)
  BY <1>1, <1>2 DEF X3DHResponder
<1> QED BY <1>3, <1>4, <1>5 DEF X3DHInitiator, X3DHResponder, SharedSecret

LEMMA InitInvariant == Init => IInv
<1> SUFFICES ASSUME Init PROVE IInv
  OBVIOUS
<1>1. PICK opk \in {OPK, Nil} :
        st = [p \in Party |->
         IF p = Initiator
           THEN NewDoubleRatchetStateInitiator(
                  X3DHInitiator(IKInitiator, IKResponder, SPK, opk, EK),
                  SPK, FirstRatchetKey)
           ELSE NewDoubleRatchetStateResponder(
                  X3DHResponder(IKResponder, SPK, opk, IKInitiator, EK), SPK)]
  BY DEF Init
<1> DEFINE sk1 == X3DHInitiator(IKInitiator, IKResponder, SPK, opk, EK)
           sk2 == X3DHResponder(IKResponder, SPK, opk, IKInitiator, EK)
           a == st[Initiator]
           b == st[Responder]
           rk0 == [sk |-> sk1, mixed |-> <<>>]
           rk == KDF_RK(rk0, DH(FirstRatchetKey, SPK))
<1>2. /\ a = NewDoubleRatchetStateInitiator(sk1, SPK, FirstRatchetKey)
      /\ b = NewDoubleRatchetStateResponder(sk2, SPK)
      /\ DOMAIN st = Party /\ fresh = 6
  BY <1>1, PartyAssumption DEF Party, Init, FirstRatchetKey
<1>3. sk1 \in SharedSecret /\ sk2 \in SharedSecret
  <2>1. /\ IKInitiator \in KeyPair /\ IKResponder \in KeyPair /\ SPK \in KeyPair
        /\ EK \in KeyPair /\ opk \in KeyPair \cup {Nil}
    BY <1>1 DEF KeyPair, IKInitiator, IKResponder, SPK, EK, OPK
  <2> QED BY <2>1, SharedSecretType
<1>4. rk0 \in RootKey /\ [sk |-> sk2, mixed |-> <<>>] \in RootKey
  BY <1>3 DEF RootKey
<1> HIDE DEF sk1, sk2
<1>5. /\ rk \in RootKey /\ Depth(rk) \in Nat /\ Below(rk, fresh)
  <2>1. DH(FirstRatchetKey, SPK) \in SUBSET KeyPair
    BY DEF DH, FirstRatchetKey, SPK, KeyPair
  <2>2. Below(rk0, fresh) /\ \A x \in DH(FirstRatchetKey, SPK) : x < fresh
    BY <1>2 DEF Below, DH, FirstRatchetKey, SPK
  <2>3. Depth(rk0) \in Nat
    BY <1>4, RootKeyStep, <2>1
  <2> HIDE DEF rk0
  <2> QED BY <1>4, <2>1, <2>2, <2>3, RootKeyStep
<1>6. /\ DOMAIN NoKeys = {} /\ IsSkippedMap(NoKeys)
      /\ Cardinality(DOMAIN NoKeys) <= MaxSkippedKeys
  <2>1. DOMAIN NoKeys = {} /\ NoKeys = [l \in {} |-> NoKeys[l]]
    BY DEF NoKeys
  <2> QED BY <2>1, FS_EmptySet, MaxSkippedAssumption DEF IsSkippedMap
<1>7. /\ a.dhs = 5 /\ a.dhr = SPK /\ a.root = rk /\ a.cks = ChainOf(rk)
      /\ a.ns = 0 /\ a.pn = 0 /\ a.ckr = Nil /\ a.nr = 0 /\ a.skipped = NoKeys
      /\ DOMAIN a = {"dhs", "dhr", "root", "cks", "ns", "pn", "ckr", "nr", "skipped"}
  BY <1>2 DEF NewDoubleRatchetStateInitiator, FirstRatchetKey
<1>8. /\ b.dhs = SPK /\ b.dhr = Nil /\ b.root = [sk |-> sk2, mixed |-> <<>>]
      /\ b.cks = Nil /\ b.ns = 0 /\ b.pn = 0 /\ b.ckr = Nil /\ b.nr = 0
      /\ b.skipped = NoKeys
      /\ DOMAIN b = {"dhs", "dhr", "root", "cks", "ns", "pn", "ckr", "nr", "skipped"}
  BY <1>2 DEF NewDoubleRatchetStateResponder
<1> HIDE DEF rk, rk0, a, b
<1>9. ChainOf(rk) \in ChainKey /\ ChainOf(rk).root = rk /\ ChainOf(rk).step = 0
  BY <1>5, ChainKeys
<1>10. IsSessionState(a) /\ IsSessionState(b)
  BY <1>4, <1>5, <1>6, <1>7, <1>8, <1>9 DEF IsSessionState, KeyPair, SPK
<1>11. SessionInv(a, fresh)
  BY <1>2, <1>5, <1>6, <1>7, <1>9, NilAssumption DEF SessionInv, SPK, KeyPair
<1>12. SessionInv(b, fresh)
  <2>1. Below(b.root, fresh)
    BY <1>8 DEF Below
  <2> QED BY <1>2, <1>6, <1>8, <2>1 DEF SessionInv, SPK
<1>13. /\ sent = {} /\ fresh \in KeyPair /\ net = [p \in Party |-> <<>>]
       /\ nsent = [p \in Party |-> 0] /\ dups = 0 /\ losses = 0
       /\ accepted = [p \in Party |-> {}] /\ failed = [p \in Party |-> {}]
  BY <1>2 DEF Init, KeyPair
<1>14. TypeOK /\ (\A p \in Party : SessionInv(st[p], fresh)) /\ SkippedKeysBounded
  <2>1. \A p \in Party : /\ IsSessionState(st[p]) /\ SessionInv(st[p], fresh)
                         /\ st[p].skipped = NoKeys
    BY <1>7, <1>8, <1>10, <1>11, <1>12 DEF Party, a, b
  <2>2. /\ net \in [Party -> Seq(Message)] /\ nsent \in [Party -> Nat]
        /\ dups \in Nat /\ losses \in Nat /\ sent \subseteq Message
        /\ accepted \in [Party -> SUBSET (Party \X Nat)]
        /\ failed \in [Party -> SUBSET (Party \X Nat)]
    BY <1>13
  <2> QED BY <1>2, <1>6, <1>13, <2>1, <2>2 DEF TypeOK, SkippedKeysBounded
<1>15. MessageInv /\ NetworkInv /\ HistoryInv /\ NoKeyReuse
  BY <1>13 DEF MessageInv, NetworkInv, HistoryInv, NoKeyReuse
<1>16. ChainsDistinct
  BY <1>8 DEF ChainsDistinct, b
<1> QED BY <1>14, <1>15, <1>16 DEF IInv

\* The part of the invariant that does not speak of the network.
SessionsInv ==
  /\ DOMAIN st = Party /\ fresh \in KeyPair
  /\ \A p \in Party : Good(st[p], fresh)
  /\ nsent \in [Party -> Nat]
  /\ sent \subseteq Message
  /\ accepted \in [Party -> SUBSET (Party \X Nat)]
  /\ failed \in [Party -> SUBSET (Party \X Nat)]
  /\ MessageInv /\ HistoryInv /\ ChainsDistinct /\ NoKeyReuse

NetInv ==
  /\ net \in [Party -> Seq(Message)] /\ dups \in Nat /\ losses \in Nat
  /\ NetworkInv

LEMMA InvariantParts == IInv <=> SessionsInv /\ NetInv
<1>1. /\ \A p \in Party : SessionInv(st[p], fresh) /\ IsSessionState(st[p])
      /\ SkippedKeysBounded
      <=> \A p \in Party : Good(st[p], fresh)
  BY DEF Good, SkippedKeysBounded
<1> QED BY <1>1 DEF IInv, SessionsInv, NetInv, TypeOK

\* Both sending chains stay apart when one party's state goes from st[p] to v.
LEMMA ChainsStayDistinct ==
  ASSUME SessionsInv, NEW p \in Party, NEW v, KeepsKeys(st[p], v, fresh),
         st' = [st EXCEPT ![p] = v]
  PROVE  ChainsDistinct'
<1>1. \A q \in Party : st[q].cks # Nil => Below(st[q].cks.root, fresh)
  BY DEF SessionsInv, Good, SessionInv
<1>2. ASSUME NEW q \in Party, q # p, v.cks # Nil, st[q].cks # Nil,
             v.cks.root = st[q].cks.root
      PROVE  st[p].cks # Nil /\ st[p].cks.root = st[q].cks.root
  BY <1>1, <1>2 DEF KeepsKeys
<1>3. CASE p = Initiator
  <2>1. st'[Initiator] = v /\ st'[Responder] = st[Responder] /\ Responder \in Party
    BY <1>3, PartyAssumption DEF SessionsInv, Party
  <2> QED BY <1>2, <1>3, <2>1, PartyAssumption DEF SessionsInv, ChainsDistinct
<1>4. CASE p = Responder
  <2>1. st'[Responder] = v /\ st'[Initiator] = st[Initiator] /\ Initiator \in Party
    BY <1>4, PartyAssumption DEF SessionsInv, Party
  <2> QED BY <1>2, <1>4, <2>1, PartyAssumption DEF SessionsInv, ChainsDistinct
<1> QED BY <1>3, <1>4 DEF Party

LEMMA DecryptInvariant ==
  ASSUME SessionsInv, NEW p \in Party, NEW m \in InFlight(p), Decrypt(p, m),
         UNCHANGED <<nsent, sent>>
  PROVE  SessionsInv'
<1>1. /\ m \in Message /\ m \in sent /\ m.id[1] = Peer(p) /\ m.dh < fresh
      /\ m.id \in Party \X Nat /\ m.mk \in ChainKey
  BY DEF InFlight, SessionsInv, MessageInv, Message
<1>2. PICK v : /\ st' = [st EXCEPT ![p] = v]
               /\ Good(v, fresh') /\ KeepsKeys(st[p], v, fresh)
               /\ \/ Consumed(v, m.mk) /\ Accept(p, m)
                  \/ Reject(p, m)
  BY <1>1, DecryptState DEF SessionsInv
<1>3. fresh' = fresh \/ fresh' = fresh + 1
  BY <1>1, DecryptState DEF SessionsInv, NextFresh
<1>4. fresh \in KeyPair /\ fresh' \in KeyPair
  BY <1>3 DEF SessionsInv, KeyPair
<1>5. /\ DOMAIN st' = Party /\ st'[p] = v
      /\ \A q \in Party : q # p => st'[q] = st[q]
  BY <1>2 DEF SessionsInv
<1>6. \A q \in Party : Good(st'[q], fresh')
  BY <1>2, <1>3, <1>4, <1>5, GoodMonotonic DEF SessionsInv
<1>7. /\ accepted' \in [Party -> SUBSET (Party \X Nat)]
      /\ failed' \in [Party -> SUBSET (Party \X Nat)]
      /\ \A q \in Party : q # p => accepted'[q] = accepted[q]
      /\ accepted'[p] \subseteq accepted[p] \cup {m.id}
      /\ Consumed(v, m.mk) \/ accepted'[p] = accepted[p]
  <2>1. CASE Consumed(v, m.mk) /\ Accept(p, m)
    BY <1>1, <2>1 DEF Accept, SessionsInv
  <2>2. CASE Reject(p, m)
    BY <1>1, <2>2 DEF Reject, SessionsInv
  <2> QED BY <1>2, <2>1, <2>2
<1>8. HistoryInv'
  <2> SUFFICES ASSUME NEW q \in Party, NEW id \in accepted'[q]
               PROVE  id[2] < nsent[id[1]]
    BY DEF HistoryInv
  <2>1. m.id[2] < nsent[m.id[1]]
    BY <1>1 DEF SessionsInv, MessageInv
  <2> QED BY <1>7, <2>1 DEF SessionsInv, HistoryInv
<1>9. \A rk \in RootKey : Below(rk, fresh) => Below(rk, fresh')
  BY <1>3, <1>4 DEF Below, RootKey, KeyPair
<1>10. MessageInv'
  <2>1. ASSUME NEW n \in sent
        PROVE  /\ Below(n.mk.root, fresh') /\ n.dh < fresh'
               /\ n.id[2] < nsent[n.id[1]]
               /\ Spent(st'[n.id[1]], n.mk)
               /\ Foreign(st'[Peer(n.id[1])], n.mk)
               /\ n.id \in accepted'[Peer(n.id[1])] => Consumed(st'[Peer(n.id[1])], n.mk)
    <3> DEFINE q == n.id[1]
    <3>1. /\ n \in Message /\ q \in Party /\ Peer(q) \in Party /\ n.mk \in ChainKey
          /\ n.mk.root \in RootKey /\ n.dh \in Nat
      BY ChainKeys, Parties DEF SessionsInv, Message, KeyPair
    <3>2. /\ Below(n.mk.root, fresh) /\ n.dh < fresh
          /\ n.id[2] < nsent[q]
          /\ Spent(st[q], n.mk) /\ Foreign(st[Peer(q)], n.mk)
          /\ n.id \in accepted[Peer(q)] => Consumed(st[Peer(q)], n.mk)
      BY DEF SessionsInv, MessageInv
    <3>3. /\ Below(n.mk.root, fresh') /\ n.dh < fresh'
      BY <1>3, <1>4, <1>9, <3>1, <3>2 DEF KeyPair
    <3>4. CASE q = p
      BY <1>2, <1>5, <1>7, <3>1, <3>2, <3>3, <3>4, Parties DEF KeepsKeys
    <3>5. CASE q # p
      <4>1. p = Peer(q) /\ q = Peer(p)
        BY <3>1, <3>5, Parties
      <4>2. Spent(st'[q], n.mk) /\ Foreign(st'[p], n.mk)
        BY <1>2, <1>5, <3>1, <3>2, <3>5, <4>1 DEF KeepsKeys
      <4>3. ASSUME n.id \in accepted'[p] PROVE Consumed(st'[p], n.mk)
        <5>1. CASE n.id \in accepted[p]
          BY <1>2, <1>5, <3>1, <3>2, <4>1, <5>1 DEF KeepsKeys
        <5>2. CASE n.id \notin accepted[p]
          <6>1. n.id = m.id /\ Consumed(v, m.mk)
            BY <1>7, <4>3, <5>2
          <6>2. n = m
            BY <1>1, <6>1 DEF SessionsInv, MessageInv
          <6> QED BY <1>5, <6>1, <6>2
        <5> QED BY <5>1, <5>2
      <4> HIDE DEF q
      <4> QED BY <3>2, <3>3, <4>1, <4>2, <4>3 DEF q
    <3> QED BY <3>4, <3>5
  <2>2. \A m1, m2 \in sent : m1.id = m2.id => m1 = m2
    BY DEF SessionsInv, MessageInv
  <2> QED BY <2>1, <2>2 DEF MessageInv
<1>11. ChainsDistinct'
  BY <1>2, ChainsStayDistinct
<1>12. NoKeyReuse'
  BY DEF SessionsInv, NoKeyReuse
<1> QED BY <1>4, <1>5, <1>6, <1>7, <1>8, <1>10, <1>11, <1>12 DEF SessionsInv

LEMMA EncryptInvariant ==
  ASSUME SessionsInv, NetInv, NEW p \in Party, Encrypt(p)
  PROVE  SessionsInv' /\ NetInv'
<1> DEFINE s == encryptState(st[p], fresh)
           m == [id |-> <<p, nsent[p]>>, dh |-> s.dhs, pn |-> s.pn, n |-> s.ns,
                 mk |-> s.cks]
           v == sealState(s)
           q == Peer(p)
<1>1. /\ CanEncrypt(st[p]) /\ st' = [st EXCEPT ![p] = v]
      /\ fresh' = (IF st[p].cks = Nil THEN fresh + 1 ELSE fresh)
      /\ net' = [net EXCEPT ![q] = Append(@, m)]
      /\ sent' = sent \cup {m}
      /\ nsent' = [nsent EXCEPT ![p] = @ + 1]
      /\ UNCHANGED <<dups, losses, accepted, failed>>
  BY DEF Encrypt
<1>3. Good(st[p], fresh) /\ fresh \in KeyPair /\ DOMAIN st = Party
  BY DEF SessionsInv
<1>4. /\ fresh' \in KeyPair /\ Good(v, fresh') /\ KeepsKeys(st[p], v, fresh)
      /\ Spent(v, s.cks) /\ s.cks \in ChainKey /\ Below(s.cks.root, fresh')
      /\ s.dhs \in KeyPair /\ s.dhs < fresh' /\ s.pn \in Nat /\ s.ns \in Nat
      /\ ((st[p].cks # Nil /\ s.cks = st[p].cks) \/ ~Below(s.cks.root, fresh))
  BY <1>1, <1>3, EncryptState
<1> HIDE DEF s, v
<1>5. nsent[p] \in Nat /\ q \in Party /\ q # p /\ Peer(q) = p
  BY Parties DEF SessionsInv
<1>6. m \in Message /\ m.id = <<p, nsent[p]>> /\ m.mk = s.cks /\ m.dh = s.dhs
  BY <1>4, <1>5 DEF Message
<1>7. DOMAIN st' = Party /\ st'[p] = v /\ st'[q] = st[q]
  BY <1>1, <1>3, <1>5
<1> HIDE DEF m, q
<1>8. /\ nsent' \in [Party -> Nat] /\ nsent'[p] = nsent[p] + 1 /\ nsent'[q] = nsent[q]
      /\ \A r \in Party : nsent[r] \in Nat /\ nsent[r] <= nsent'[r]
  BY <1>1, <1>5 DEF SessionsInv
<1>9. \A r \in Party : r = p \/ r = q
  BY Parties DEF q
<1>10. fresh' = fresh \/ fresh' = fresh + 1
  BY <1>1
<1>11. \A r \in Party : Good(st'[r], fresh')
  BY <1>3, <1>4, <1>5, <1>7, <1>9, <1>10, GoodMonotonic DEF SessionsInv
<1>12. HistoryInv'
  <2> SUFFICES ASSUME NEW r \in Party, NEW id \in accepted[r]
               PROVE  id[2] < nsent'[id[1]]
    BY <1>1 DEF HistoryInv
  <2>1. id \in Party \X Nat /\ id[2] < nsent[id[1]]
    BY DEF SessionsInv, HistoryInv
  <2> QED BY <1>8, <2>1
<1>13. m.id \notin accepted[q] /\ \A n \in sent : n.id # m.id
  <2>1. ~(nsent[p] < nsent[p])
    BY <1>5
  <2> QED BY <1>5, <1>6, <2>1 DEF SessionsInv, HistoryInv, MessageInv
<1>14. Foreign(st[q], m.mk)
  <2>1. st[q].cks # Nil => Below(st[q].cks.root, fresh)
    BY <1>5 DEF SessionsInv, Good, SessionInv
  <2>2. st[p].cks # Nil /\ st[q].cks # Nil => st[p].cks.root # st[q].cks.root
    BY <1>5 DEF SessionsInv, ChainsDistinct, Party
  <2> QED BY <1>4, <1>6, <2>1, <2>2 DEF Foreign
<1>15. ASSUME NEW n \in sent
       PROVE  /\ Below(n.mk.root, fresh') /\ n.dh < fresh'
              /\ n.id[2] < nsent'[n.id[1]]
              /\ Spent(st'[n.id[1]], n.mk)
              /\ Foreign(st'[Peer(n.id[1])], n.mk)
              /\ n.id \in accepted[Peer(n.id[1])] => Consumed(st'[Peer(n.id[1])], n.mk)
              /\ n.mk # m.mk
  <2> DEFINE r == n.id[1]
  <2>1. /\ n \in Message /\ r \in Party /\ n.mk \in ChainKey /\ n.id[2] \in Nat
        /\ n.mk.root \in RootKey /\ n.dh \in Nat
    BY ChainKeys DEF SessionsInv, Message, KeyPair
  <2>2. /\ Below(n.mk.root, fresh) /\ n.dh < fresh
        /\ n.id[2] < nsent[r]
        /\ Spent(st[r], n.mk) /\ Foreign(st[Peer(r)], n.mk)
        /\ n.id \in accepted[Peer(r)] => Consumed(st[Peer(r)], n.mk)
    BY DEF SessionsInv, MessageInv
  <2>3. Below(n.mk.root, fresh') /\ n.dh < fresh'
    BY <1>3, <1>10, <2>1, <2>2 DEF Below, RootKey, KeyPair
  <2>4. n.id[2] < nsent'[r]
    BY <1>8, <2>1, <2>2
  <2> HIDE DEF r
  <2>5. CASE r = p
    <3>1. Peer(r) = q
      BY <2>5 DEF q
    <3>2. Spent(st'[r], n.mk)
      BY <1>4, <1>7, <2>1, <2>2, <2>5 DEF KeepsKeys
    <3>3. n.mk # m.mk
      <4>1. Spent(st[p], n.mk)
        BY <2>2, <2>5
      <4>2. s.cks.step \in Nat
        BY <1>4, ChainKeys
      <4>3. CASE st[p].cks # Nil /\ s.cks = st[p].cks
        BY <1>6, <4>1, <4>2, <4>3 DEF Spent
      <4>4. CASE ~Below(s.cks.root, fresh)
        BY <1>6, <2>2, <4>4
      <4> QED BY <1>4, <4>3, <4>4
    <3> QED BY <1>7, <2>2, <2>3, <2>4, <3>1, <3>2, <3>3 DEF r
  <2>6. CASE r = q
    <3>1. Peer(r) = p
      BY <1>5, <2>6
    <3>2. /\ Foreign(st'[p], n.mk)
          /\ n.id \in accepted[p] => Consumed(st'[p], n.mk)
      BY <1>4, <1>7, <2>1, <2>2, <3>1 DEF KeepsKeys
    <3>3. n.mk # m.mk
      BY <1>4, <1>6, <2>2, <3>1 DEF Foreign
    <3>4. st'[r] = st[r]
      BY <1>7, <2>6
    <3> QED BY <2>2, <2>3, <2>4, <3>1, <3>2, <3>3, <3>4 DEF r
  <2> QED BY <1>9, <2>1, <2>5, <2>6
<1>16. /\ Below(m.mk.root, fresh') /\ m.dh < fresh'
       /\ m.id[2] < nsent'[m.id[1]]
       /\ Spent(st'[m.id[1]], m.mk)
       /\ Foreign(st'[Peer(m.id[1])], m.mk)
       /\ m.id \notin accepted[Peer(m.id[1])]
  <2>1. m.id[1] = p /\ m.id[2] = nsent[p] /\ Peer(m.id[1]) = q
    BY <1>6 DEF q
  <2> QED BY <1>4, <1>5, <1>6, <1>7, <1>8, <1>13, <1>14, <2>1
<1>17. MessageInv'
  <2>1. \A m1, m2 \in sent' : m1.id = m2.id => m1 = m2
    BY <1>1, <1>13 DEF SessionsInv, MessageInv
  <2> QED BY <1>1, <1>15, <1>16, <2>1 DEF MessageInv
<1>18. NoKeyReuse'
  BY <1>1, <1>15 DEF SessionsInv, NoKeyReuse
<1>19. ChainsDistinct'
  BY <1>1, <1>4, ChainsStayDistinct
<1>20. SessionsInv'
  <2>1. sent' \subseteq Message
    BY <1>1, <1>6 DEF SessionsInv
  <2>2. /\ accepted' \in [Party -> SUBSET (Party \X Nat)]
        /\ failed' \in [Party -> SUBSET (Party \X Nat)]
    BY <1>1 DEF SessionsInv
  <2> QED BY <1>4, <1>7, <1>8, <1>11, <1>12, <1>17, <1>18, <1>19, <2>1, <2>2
          DEF SessionsInv
<1>21. NetInv'
  <2>1. /\ net \in [Party -> Seq(Message)]
        /\ \A r \in Party : net[r] \in Seq(InFlight(r))
    BY DEF NetInv, NetworkInv
  <2>2. net' \in [Party -> Seq(Message)]
    <3>1. Append(net[q], m) \in Seq(Message)
      BY <1>5, <1>6, <2>1
    <3> QED BY <1>1, <1>5, <2>1, <3>1
  <2>3. m \in InFlight(q)' /\ \A r \in Party : InFlight(r) \subseteq InFlight(r)'
    BY <1>1, <1>5, <1>6 DEF InFlight
  <2>4. ASSUME NEW r \in Party PROVE net'[r] \in Seq(InFlight(r)')
    <3>1. net[r] \in Seq(InFlight(r)')
      BY <2>1, <2>3
    <3>2. CASE r = q
      BY <1>1, <1>5, <2>1, <2>3, <3>1, <3>2
    <3>3. CASE r # q
      BY <1>1, <2>1, <3>1, <3>3
    <3> QED BY <3>2, <3>3
  <2> QED BY <1>1, <2>2, <2>4 DEF NetInv, NetworkInv
<1> QED BY <1>20, <1>21

\* Taking a message out of the network, or leaving it there for a second
\* delivery, disturbs nothing but the counters of the network.
LEMMA NetworkStep ==
  ASSUME NetInv, UNCHANGED sent, dups' \in Nat, losses' \in Nat,
         \/ UNCHANGED net
         \/ \E p \in Party, i \in Nat : /\ i \in DOMAIN net[p]
                                        /\ net' = [net EXCEPT ![p] = RemoveAt(@, i)]
  PROVE  NetInv'
<1>1. /\ net \in [Party -> Seq(Message)]
      /\ \A r \in Party : net[r] \in Seq(InFlight(r)) /\ InFlight(r)' = InFlight(r)
  BY DEF NetInv, NetworkInv, InFlight
<1>2. CASE UNCHANGED net
  BY <1>1, <1>2 DEF NetInv, NetworkInv
<1>3. ASSUME NEW p \in Party, NEW i \in DOMAIN net[p],
             net' = [net EXCEPT ![p] = RemoveAt(@, i)]
      PROVE  NetInv'
  <2>1. RemoveAt(net[p], i) \in Seq(Message) /\ RemoveAt(net[p], i) \in Seq(InFlight(p))
    BY <1>1, RemoveAtType
  <2>2. net' \in [Party -> Seq(Message)]
    BY <1>1, <1>3, <2>1
  <2>3. \A r \in Party : net'[r] \in Seq(InFlight(r))
    BY <1>1, <1>3, <2>1
  <2> QED BY <1>1, <2>2, <2>3 DEF NetInv, NetworkInv
<1> QED BY <1>2, <1>3

LEMMA NextInvariant == IInv /\ [Next]_vars => IInv'
<1> SUFFICES ASSUME SessionsInv, NetInv, [Next]_vars PROVE SessionsInv' /\ NetInv'
  <2>1. (IInv <=> SessionsInv /\ NetInv) /\ (IInv' <=> SessionsInv' /\ NetInv')
    BY InvariantParts, PTL
  <2> QED BY <2>1
<1>1. \A p \in Party : \A i \in DOMAIN net[p] : net[p][i] \in InFlight(p) /\ i \in Nat
  BY DEF NetInv, NetworkInv
<1>2. dups \in Nat /\ losses \in Nat
  BY DEF NetInv
<1>3. ASSUME NEW p \in Party, Encrypt(p) PROVE SessionsInv' /\ NetInv'
  BY <1>3, EncryptInvariant
<1>4. ASSUME NEW p \in Party, Deliver(p) PROVE SessionsInv' /\ NetInv'
  <2>1. PICK i \in DOMAIN net[p] :
          /\ Decrypt(p, net[p][i])
          /\ net' = [net EXCEPT ![p] = RemoveAt(@, i)]
          /\ UNCHANGED <<nsent, dups, losses, sent>>
    BY <1>4 DEF Deliver
  <2>2. SessionsInv'
    BY <1>1, <2>1, DecryptInvariant
  <2>3. NetInv'
    BY <1>1, <1>2, <2>1, NetworkStep
  <2> QED BY <2>2, <2>3
<1>5. ASSUME NEW p \in Party, Duplicate(p) PROVE SessionsInv' /\ NetInv'
  <2>1. PICK i \in DOMAIN net[p] :
          /\ Decrypt(p, net[p][i]) /\ dups' = dups + 1
          /\ UNCHANGED <<net, nsent, losses, sent>>
    BY <1>5 DEF Duplicate
  <2>2. SessionsInv'
    BY <1>1, <2>1, DecryptInvariant
  <2>3. NetInv'
    BY <1>2, <2>1, NetworkStep
  <2> QED BY <2>2, <2>3
<1>6. ASSUME NEW p \in Party, Lose(p) PROVE SessionsInv' /\ NetInv'
  <2>1. PICK i \in DOMAIN net[p] :
          /\ net' = [net EXCEPT ![p] = RemoveAt(@, i)] /\ losses' = losses + 1
          /\ UNCHANGED <<st, fresh, nsent, dups, sent, accepted, failed>>
    BY <1>6 DEF Lose
  <2>2. SessionsInv'
    BY <2>1 DEF SessionsInv, MessageInv, HistoryInv, ChainsDistinct, NoKeyReuse
  <2>3. NetInv'
    <3>1. dups' \in Nat /\ losses' \in Nat /\ UNCHANGED sent
      BY <1>2, <2>1
    <3>2. \E r \in Party, j \in Nat : /\ j \in DOMAIN net[r]
                                     /\ net' = [net EXCEPT ![r] = RemoveAt(@, j)]
      BY <1>1, <2>1
    <3> QED BY <3>1, <3>2, NetworkStep
  <2> QED BY <2>2, <2>3
<1>7. CASE UNCHANGED vars
  <2>1. SessionsInv'
    BY <1>7 DEF vars, SessionsInv, MessageInv, HistoryInv, ChainsDistinct, NoKeyReuse
  <2>2. NetInv'
    BY <1>2, <1>7, NetworkStep DEF vars
  <2> QED BY <2>1, <2>2
<1> QED BY <1>3, <1>4, <1>5, <1>6, <1>7 DEF Next

\* Every reachable state satisfies the inductive invariant.
THEOREM Invariant == Spec => []IInv
<1>1. Init => IInv
  BY InitInvariant
<1>2. IInv /\ [Next]_vars => IInv'
  BY NextInvariant
<1> QED BY <1>1, <1>2, PTL DEF Spec

-----------------------------------------------------------------------------
(* The theorems *)

\* Encrypt and Decrypt keep the session states, the counters and the cache well
\* formed, however messages are lost, duplicated and reordered.
THEOREM TypeCorrect == Spec => []TypeOK
<1>1. IInv => TypeOK
  BY DEF IInv
<1> QED BY <1>1, Invariant, PTL

\* The three caching loops never grow the skipped-key map past MaxSkippedKeys.
THEOREM CacheBounded == Spec => []SkippedKeysBounded
<1>1. IInv => SkippedKeysBounded
  BY DEF IInv
<1> QED BY <1>1, Invariant, PTL

\* No two messages are sealed under the same message key, for any number of
\* messages and whatever is replayed into dhRatchetReceive.
THEOREM KeysUnique == Spec => []NoKeyReuse
<1>1. IInv => NoKeyReuse
  BY DEF IInv
<1> QED BY <1>1, Invariant, PTL

\* A message key cannot be derived again by its sender once used, nor by its
\* receiver once the message has been decrypted.
THEOREM ForwardSecure == Spec => []ForwardSecrecy
<1>1. IInv => ForwardSecrecy
  <2> SUFFICES ASSUME IInv, NEW m \in sent
               PROVE  /\ ~Derivable(st[m.id[1]], m.mk)
                      /\ m.id \in accepted[Peer(m.id[1])]
                           => ~Derivable(st[Peer(m.id[1])], m.mk)
    BY DEF ForwardSecrecy
  <2> DEFINE p == m.id[1]
             q == Peer(p)
  <2>1. m \in Message /\ m.mk \in ChainKey /\ m.mk.step \in Nat /\ p \in Party /\ q \in Party
    BY ChainKeys, Parties DEF IInv, TypeOK, Message
  <2>2. Spent(st[p], m.mk) /\ (m.id \in accepted[q] => Consumed(st[q], m.mk))
    BY DEF IInv, MessageInv
  <2>3. /\ Foreign(st[q], m.mk)
        /\ \A r \in Party : /\ st[r].cks # Nil => st[r].cks.step \in Nat
                            /\ st[r].ckr # Nil => st[r].ckr.step \in Nat
    BY ChainKeys DEF IInv, TypeOK, IsSessionState, MessageInv
  <2> HIDE DEF p, q
  <2>4. ~Derivable(st[p], m.mk)
    BY <2>1, <2>2, <2>3 DEF Derivable, Spent
  <2>5. m.id \in accepted[q] => ~Derivable(st[q], m.mk)
    BY <2>1, <2>2, <2>3 DEF Derivable, Consumed
  <2> QED BY <2>4, <2>5 DEF p, q
<1> QED BY <1>1, Invariant, PTL

-----------------------------------------------------------------------------
(***************************************************************************)
(* Delivery: a session opens every message on its first arrival            *)
(* (Delivered), for any number of messages, over a network that reorders   *)
(* within a sending chain and loses messages.                              *)
(*                                                                         *)
(* The invariant relates the two session states to what is in flight       *)
(* between them: the one that took the last DH ratchet step leads the      *)
(* other by exactly one root key, each message in flight is sealed on a    *)
(* chain its receiver is on or will derive, and the receiver holds the key *)
(* of every one it has passed.  The cache never refuses a key because each *)
(* label it holds or is about to hold stands for a message that was lost   *)
(* or that is among the first Window - 1 of the queue.                     *)
(***************************************************************************)

LabelOf(m) == <<m.dh, m.n>>

\* m was sealed on the chain of ratchet key d and root key rk.
OnChain(m, d, rk) == m.dh = d /\ m.mk = [root |-> rk, step |-> m.n]

\* A message of the current receiving chain that the chain has passed has its
\* key in the cache.
Opens(s, m) ==
  m.n < s.nr => LabelOf(m) \in DOMAIN s.skipped /\ s.skipped[LabelOf(m)] = m.mk

\* The chain key is that of the next counter, and labels lie behind it.
Counted(s, f) ==
  /\ s.ckr # Nil => s.ckr.step = s.nr
  /\ \A l \in DOMAIN s.skipped : l[1] < f /\ (l[1] = s.dhr => l[2] < s.nr)

\* The queue of what s has sealed: chain after chain, each in order.
Outgoing(s, b) ==
  /\ \A i, j \in DOMAIN b : i < j /\ b[i].dh = s.dhs => b[j].dh = s.dhs
  /\ \A i, j \in DOMAIN b : i < j /\ b[i].dh = b[j].dh => b[i].n < b[j].n

\* s has taken the last DH ratchet step and t has not followed: A and B are in
\* flight to s and to t.
Leads(s, t, A, B) ==
  /\ s.dhr = t.dhs /\ t.dhr # s.dhs
  /\ s.root = KDF_RK(t.root, DH(s.dhs, t.dhs))
  /\ s.cks = [root |-> s.root, step |-> s.ns]
  /\ \A l \in DOMAIN t.skipped : l[1] # s.dhs
  /\ \/ t.cks = Nil /\ t.dhr = Nil /\ s.ckr = Nil /\ A = {}
     \/ /\ t.cks = [root |-> t.root, step |-> t.ns] /\ t.dhr # Nil
        /\ s.ckr = [root |-> t.root, step |-> s.nr] /\ s.nr <= t.ns
  /\ \A m \in A : OnChain(m, t.dhs, t.root) /\ Opens(s, m)
  /\ \A m \in B :
       \/ OnChain(m, s.dhs, s.root) /\ m.pn = s.pn
       \/ t.ckr # Nil /\ OnChain(m, t.dhr, t.ckr.root) /\ Opens(t, m)

\* The responder t has followed the first chain of s and has not answered.
Even(s, t, A, B) ==
  /\ t.dhr = s.dhs /\ s.dhr # Nil
  /\ s.root = t.root
  /\ s.cks = [root |-> s.root, step |-> s.ns]
  /\ t.cks = Nil /\ s.ckr = Nil /\ A = {}
  /\ t.ckr = [root |-> s.root, step |-> t.nr] /\ t.nr <= s.ns
  /\ \A m \in B : OnChain(m, s.dhs, s.root) /\ Opens(t, m)

Sync(s, t, A, B) == Leads(s, t, A, B) \/ Even(s, t, A, B)

InSync ==
  \E p \in Party : Sync(st[p], st[Peer(p)], Range(net[p]), Range(net[Peer(p)]))

SyncInv ==
  /\ InSync
  /\ \A p \in Party : Counted(st[p], fresh) /\ Outgoing(st[p], net[Peer(p)])

-----------------------------------------------------------------------------
(* The room in the cache *)

\* p has sealed a message with ratchet key d, counter n and key mk.
Among(S, p, d, n, mk) ==
  \E m \in S : m.id[1] = p /\ m.dh = d /\ m.n = n /\ m.mk = mk

Sealed(p, d, n, mk) == Among(sent, p, d, n, mk)

\* Messages that are neither decrypted nor on their way.
Lost ==
  {m \in sent : /\ m.id \notin accepted[Peer(m.id[1])]
                /\ \A i \in DOMAIN net[Peer(m.id[1])] : net[Peer(m.id[1])][i] # m}

\* Every counter of a chain up to the last one used was sealed, and no other.
ChainsComplete ==
  /\ \A m \in sent : m.dh = st[m.id[1]].dhs => m.n < st[m.id[1]].ns
  /\ \A m \in sent : \A n \in 0 .. (m.n - 1) :
       Sealed(m.id[1], m.dh, n, [root |-> m.mk.root, step |-> n])
  /\ \A p \in Party :
       st[p].cks # Nil => \A n \in 0 .. (st[p].ns - 1) :
         Sealed(p, st[p].dhs, n, [root |-> st[p].cks.root, step |-> n])
  /\ \A p \in Party : LET s == st[p] 
                          t == st[Peer(p)] IN
       s.dhs # t.dhr /\ t.ckr # Nil => \A n \in 0 .. (s.pn - 1) :
         Sealed(p, t.dhr, n, [root |-> t.ckr.root, step |-> n])

\* What the cache holds are keys of messages that are lost or were overtaken.
CacheAccounted ==
  \A p \in Party :
    /\ \A l \in DOMAIN st[p].skipped : Sealed(Peer(p), l[1], l[2], st[p].skipped[l])
    /\ \A j \in DOMAIN net[p] : LabelOf(net[p][j]) \in DOMAIN st[p].skipped => j < Window

LossInv ==
  IsFiniteSet(sent) /\ Cardinality(Lost) <= losses /\ losses <= MaxLosses

DInv == SyncInv /\ ChainsComplete /\ CacheAccounted /\ LossInv /\ NoDecryptFailure

-----------------------------------------------------------------------------
(* Queues and keys *)

\* Where an entry of RemoveAt(q, i) was in q.
Before(i, j) == IF j < i THEN j ELSE j + 1

\* The entries of a concatenation.
LEMMA Concat ==
  ASSUME NEW S, NEW a \in Seq(S), NEW b \in Seq(S)
  PROVE  /\ a \o b \in Seq(S) /\ Len(a \o b) = Len(a) + Len(b)
         /\ \A j \in 1 .. Len(a) : (a \o b)[j] = a[j]
         /\ \A k \in 1 .. Len(b) : (a \o b)[Len(a) + k] = b[k]
<1>1. a \o b \in Seq(S) /\ Len(a \o b) = Len(a) + Len(b)
  OBVIOUS
<1>2. \A j \in 1 .. Len(a) : (a \o b)[j] = a[j]
  OBVIOUS
<1>3. \A k \in 1 .. Len(b) : (a \o b)[Len(a) + k] = b[k]
  OBVIOUS
<1> QED BY <1>1, <1>2, <1>3

\* RemoveAt keeps every entry but one, in order.
LEMMA RemoveAtEntries ==
  ASSUME NEW S, NEW q \in Seq(S), NEW i \in DOMAIN q
  PROVE  /\ RemoveAt(q, i) \in Seq(S)
         /\ \A j \in DOMAIN RemoveAt(q, i) :
              Before(i, j) \in DOMAIN q /\ Before(i, j) # i /\ RemoveAt(q, i)[j] = q[Before(i, j)]
         /\ \A k \in DOMAIN q : k # i => \E j \in DOMAIN RemoveAt(q, i) : RemoveAt(q, i)[j] = q[k]
<1>1. i \in 1 .. Len(q) /\ Len(q) \in Nat
  OBVIOUS
<1>2. PICK a : a = SubSeq(q, 1, i - 1)
  OBVIOUS
<1>3. PICK b : b = SubSeq(q, i + 1, Len(q))
  OBVIOUS
<1>4. /\ a \in Seq(S) /\ Len(a) = i - 1 /\ \A j \in 1 .. (i - 1) : a[j] = q[j]
  BY <1>1, <1>2
<1>5. /\ b \in Seq(S) /\ Len(b) = Len(q) - i /\ \A j \in 1 .. (Len(q) - i) : b[j] = q[i + j]
  BY <1>1, <1>3
<1>6. RemoveAt(q, i) = a \o b
  BY <1>2, <1>3 DEF RemoveAt
<1>7. a \o b \in Seq(S) /\ Len(a \o b) = Len(q) - 1
  <2>1. a \o b \in Seq(S) /\ Len(a \o b) = Len(a) + Len(b)
    BY <1>4, <1>5, Concat
  <2> QED BY <1>1, <1>4, <1>5, <2>1
<1>8. ASSUME NEW j \in 1 .. (Len(q) - 1)
      PROVE  Before(i, j) \in DOMAIN q /\ Before(i, j) # i /\ (a \o b)[j] = q[Before(i, j)]
  <2>1. CASE j < i
    <3>1. j \in 1 .. (i - 1) /\ j \in 1 .. Len(a)
      BY <1>1, <1>4, <2>1
    <3>2. (a \o b)[j] = a[j]
      BY <1>4, <1>5, <3>1, Concat
    <3> QED BY <1>1, <1>4, <2>1, <3>1, <3>2 DEF Before
  <2>2. CASE ~(j < i)
    <3>1. PICK k \in 1 .. (Len(q) - i) : j = (i - 1) + k
      <4>1. j - (i - 1) \in 1 .. (Len(q) - i) /\ j = (i - 1) + (j - (i - 1))
        BY <1>1, <2>2
      <4> QED BY <4>1
    <3>2. k \in 1 .. Len(b) /\ j = Len(a) + k
      BY <1>4, <1>5, <3>1
    <3>3. (a \o b)[j] = b[k]
      <4>1. a \in Seq(S) /\ b \in Seq(S)
        BY <1>4, <1>5
      <4>2. \A x \in 1 .. Len(b) : (a \o b)[Len(a) + x] = b[x]
        BY <4>1, Concat
      <4> QED BY <3>2, <4>2
    <3>4. Before(i, j) = i + k
      BY <1>1, <2>2, <3>1 DEF Before
    <3> QED BY <1>1, <1>5, <3>1, <3>3, <3>4
  <2> QED BY <2>1, <2>2
<1>9. DOMAIN (a \o b) = 1 .. (Len(q) - 1)
  BY <1>1, <1>7
<1>10. ASSUME NEW k \in DOMAIN q, k # i PROVE \E j \in DOMAIN (a \o b) : (a \o b)[j] = q[k]
  <2>1. CASE k < i
    <3>1. k \in 1 .. (Len(q) - 1) /\ Before(i, k) = k
      BY <1>1, <2>1 DEF Before
    <3> QED BY <1>8, <1>9, <3>1
  <2>2. CASE k > i
    <3>1. k - 1 \in 1 .. (Len(q) - 1) /\ Before(i, k - 1) = k
      BY <1>1, <2>2 DEF Before
    <3> QED BY <1>8, <1>9, <3>1
  <2> QED BY <1>1, <1>10, <2>1, <2>2
<1> QED BY <1>6, <1>7, <1>8, <1>9, <1>10

\* Chain keys and root keys as records.
LEMMA KeyForms ==
  /\ \A ck \in ChainKey : /\ ck = [root |-> ck.root, step |-> ck.step]
                          /\ ck.root \in RootKey /\ ck.step \in Nat
                          /\ KDF_CK(ck) = [root |-> ck.root, step |-> ck.step + 1]
                          /\ \A k \in Nat : KDF_CKn(ck, k) = [root |-> ck.root, step |-> ck.step + k]
  /\ \A rk \in RootKey : /\ ChainOf(rk) = [root |-> rk, step |-> 0]
                         /\ \A n \in Nat : [root |-> rk, step |-> n] \in ChainKey
  /\ Nil \notin ChainKey
BY NilAssumption DEF ChainKey, KDF_CK, KDF_CKn, ChainOf

-----------------------------------------------------------------------------
(* Decrypting along the receiving chain *)

Room(s, n) == \A c \in s.nr .. (n - 1) : Fits(s, c)

Hit(s, m) == HasSkippedKey(s, m) /\ s.skipped[LabelOf(m)] = m.mk

After(s, m) ==
  IF Hit(s, m) THEN getSkippedKey(s, m) ELSE consumeKey(nextMessageKey(s, m))

\* Decrypt finds the key of m in state s, cached or at the end of the chain.
Finds(s, m) == Hit(s, m) \/ (~HasSkippedKey(s, m) /\ nextMessageKey(s, m).ckr = m.mk)

\* The cache of v holds keys that s had cached, or keys of its receiving chain
\* between its counter and that of m.
CachedFrom(s, v, m) ==
  \A l \in DOMAIN v.skipped :
    \/ l \in DOMAIN s.skipped /\ v.skipped[l] = s.skipped[l]
    \/ /\ l \in Label /\ l[1] = s.dhr /\ l[2] \in s.nr .. (m.n - 1)
       /\ v.skipped[l] = [root |-> s.ckr.root, step |-> l[2]]

\* v is s with the receiving chain moved to m at most, and the keys before it cached.
Moved(s, v, m) ==
  /\ v.dhs = s.dhs /\ v.dhr = s.dhr /\ v.root = s.root /\ v.cks = s.cks
  /\ v.ns = s.ns /\ v.pn = s.pn
  /\ v.nr \in Nat /\ v.ckr = [root |-> s.ckr.root, step |-> v.nr]
  /\ v.nr <= s.nr \/ v.nr = m.n + 1
  /\ CachedFrom(s, v, m)

\* nextMessageKey moves the chain to m and caches every key it passes.
LEMMA CatchUp ==
  ASSUME NEW s, Receiving(s), NEW f \in KeyPair, Counted(s, f), s.dhr < f,
         NEW m \in Message, m.n >= s.nr, Room(s, m.n),
         NEW u, u = nextMessageKey(s, m)
  PROVE  /\ DOMAIN u = DOMAIN s
         /\ u.dhs = s.dhs /\ u.dhr = s.dhr /\ u.root = s.root /\ u.cks = s.cks
         /\ u.ns = s.ns /\ u.pn = s.pn
         /\ u.nr = m.n /\ u.ckr = [root |-> s.ckr.root, step |-> m.n]
         /\ CachedFrom(s, u, m)
         /\ \A c \in s.nr .. (m.n - 1) : <<s.dhr, c>> \in DOMAIN u.skipped
         /\ DOMAIN s.skipped \subseteq DOMAIN u.skipped
<1>1. /\ s.nr \in Nat /\ m.n \in Nat /\ s.ckr \in ChainKey /\ s.dhr \in KeyPair
      /\ s.ckr.step = s.nr /\ s.ckr.root \in RootKey /\ s.ckr = [root |-> s.ckr.root, step |-> s.nr]
  BY KeyForms DEF Receiving, IsSessionState, Message, Counted
<1>2. \A c \in s.nr .. (m.n - 1) :
        KDF_CKn(s.ckr, c - s.nr) = [root |-> s.ckr.root, step |-> c]
  <2> SUFFICES ASSUME NEW c \in s.nr .. (m.n - 1)
               PROVE  KDF_CKn(s.ckr, c - s.nr) = [root |-> s.ckr.root, step |-> c]
    OBVIOUS
  <2>1. PICK k \in Nat : k = c - s.nr
    BY <1>1
  <2>2. KDF_CKn(s.ckr, k) = [root |-> s.ckr.root, step |-> s.nr + k]
    BY <1>1, KeyForms
  <2>3. s.nr + k = c
    BY <1>1, <2>1
  <2> QED BY <2>1, <2>2, <2>3
<1>3. CASE m.n = s.nr
  <2>1. u = s
    BY <1>1, <1>3 DEF nextMessageKey, advanceReceivingChain
  <2>2. s.nr .. (m.n - 1) = {}
    BY <1>1, <1>3
  <2> QED BY <1>1, <1>3, <2>1, <2>2 DEF CachedFrom
<1>4. CASE m.n > s.nr
  <2>1. PICK x : x = skipMessages(s, m.n)
    OBVIOUS
  <2>2. /\ DOMAIN x = DOMAIN s
        /\ x.dhs = s.dhs /\ x.dhr = s.dhr /\ x.root = s.root /\ x.cks = s.cks
        /\ x.ns = s.ns /\ x.pn = s.pn /\ x.ckr = s.ckr /\ x.nr = s.nr
        /\ x.skipped = CacheKeys(s, m.n)
    BY <2>1 DEF skipMessages, Receiving, IsSessionState
  <2>3. CacheGrows(s, x.skipped, m.n) /\ IsSkippedMap(x.skipped)
    BY <1>1, <2>2, CacheKeysGrows
  <2>4. Receiving(x)
    BY <1>1, <2>2, <2>3 DEF Receiving, IsSessionState
  <2>5. u = advanceReceivingChain(x, m.n)
    BY <1>1, <1>4, <2>1 DEF nextMessageKey
  <2>6. /\ DOMAIN u = DOMAIN s
        /\ u.dhs = s.dhs /\ u.dhr = s.dhr /\ u.root = s.root /\ u.cks = s.cks
        /\ u.ns = s.ns /\ u.pn = s.pn
        /\ u.ckr = KDF_CKn(s.ckr, m.n - s.nr) /\ u.nr = m.n
        /\ u.skipped = CacheKeys(x, m.n)
    BY <1>1, <1>4, <2>2, <2>4, <2>5 DEF advanceReceivingChain, Receiving, IsSessionState
  <2>7. u.ckr = [root |-> s.ckr.root, step |-> m.n]
    <3>1. PICK k \in Nat : k = m.n - s.nr
      BY <1>1, <1>4
    <3>2. KDF_CKn(s.ckr, k) = [root |-> s.ckr.root, step |-> s.nr + k]
      BY <1>1, KeyForms
    <3>3. s.nr + k = m.n
      BY <1>1, <3>1
    <3> QED BY <2>6, <3>1, <3>2, <3>3
  <2>8. CacheGrows(x, u.skipped, m.n)
    BY <1>1, <2>4, <2>6, CacheKeysGrows
  <2>9. CachedFrom(s, u, m)
    BY <1>2, <2>2, <2>3, <2>8 DEF CacheGrows, CachedFrom
  <2>10. /\ DOMAIN s.skipped \subseteq DOMAIN x.skipped
         /\ DOMAIN x.skipped \subseteq DOMAIN u.skipped
    BY <2>2, <2>6 DEF CacheKeys
  <2>11. ASSUME NEW c \in s.nr .. (m.n - 1) PROVE <<s.dhr, c>> \in DOMAIN x.skipped
    <3>1. c \in CachedCounters(s, m.n)
      BY DEF Room, CachedCounters
    <3> QED BY <2>2, <3>1 DEF CacheKeys
  <2> QED BY <2>6, <2>7, <2>9, <2>10, <2>11
<1> QED BY <1>1, <1>3, <1>4

\* A message of the receiving chain is opened, and those not yet read stay readable.
LEMMA OpenAlong ==
  ASSUME NEW s, Receiving(s), NEW f \in KeyPair, Counted(s, f), s.dhr < f,
         NEW m \in Message, OnChain(m, s.dhr, s.ckr.root), Opens(s, m), Room(s, m.n),
         NEW v, v = After(s, m)
  PROVE  /\ Finds(s, m) /\ Moved(s, v, m) /\ Counted(v, f)
         /\ \A x \in Message :
              OnChain(x, s.dhr, s.ckr.root) /\ x.n # m.n /\ Opens(s, x) => Opens(v, x)
<1>1. /\ s.nr \in Nat /\ m.n \in Nat /\ s.ckr \in ChainKey /\ s.dhr \in KeyPair /\ s.ckr # Nil
      /\ s.ckr.step = s.nr /\ s.ckr.root \in RootKey /\ s.ckr = [root |-> s.ckr.root, step |-> s.nr]
      /\ m.dh = s.dhr /\ m.mk = [root |-> s.ckr.root, step |-> m.n]
      /\ DOMAIN s = {"dhs", "dhr", "root", "cks", "ns", "pn", "ckr", "nr", "skipped"}
  BY KeyForms DEF Receiving, IsSessionState, Message, Counted, OnChain
<1>2. CASE m.n < s.nr
  <2>1. Hit(s, m) /\ LabelOf(m) \in DOMAIN s.skipped
    BY <1>2 DEF Opens, Hit, HasSkippedKey, LabelOf
  <2>2. v = [s EXCEPT !.skipped = Restrict(@, DOMAIN @ \ {LabelOf(m)})]
    BY <2>1 DEF After, getSkippedKey, LabelOf
  <2>3. /\ v.dhs = s.dhs /\ v.dhr = s.dhr /\ v.root = s.root /\ v.cks = s.cks
        /\ v.ns = s.ns /\ v.pn = s.pn /\ v.nr = s.nr /\ v.ckr = s.ckr
        /\ v.skipped = Restrict(s.skipped, DOMAIN s.skipped \ {LabelOf(m)})
    BY <1>1, <2>2
  <2>4. /\ DOMAIN v.skipped = DOMAIN s.skipped \ {LabelOf(m)}
        /\ \A l \in DOMAIN v.skipped : v.skipped[l] = s.skipped[l]
    BY <2>3 DEF Restrict
  <2>5. Moved(s, v, m)
    BY <1>1, <2>3, <2>4 DEF Moved, CachedFrom
  <2>6. Counted(v, f)
    BY <2>3, <2>4 DEF Counted
  <2>7. ASSUME NEW x \in Message, x.n # m.n, Opens(s, x) PROVE Opens(v, x)
    <3>1. LabelOf(x) # LabelOf(m)
      BY <2>7 DEF LabelOf
    <3> QED BY <2>3, <2>4, <2>7, <3>1 DEF Opens
  <2> QED BY <2>1, <2>5, <2>6, <2>7 DEF Finds
<1>3. CASE ~(m.n < s.nr)
  <2>1. ~HasSkippedKey(s, m) /\ ~Hit(s, m)
    BY <1>1, <1>3 DEF HasSkippedKey, Hit, Counted
  <2>2. PICK u : u = nextMessageKey(s, m)
    OBVIOUS
  <2>3. m.n >= s.nr
    BY <1>1, <1>3
  <2>4. /\ DOMAIN u = DOMAIN s
        /\ u.dhs = s.dhs /\ u.dhr = s.dhr /\ u.root = s.root /\ u.cks = s.cks
        /\ u.ns = s.ns /\ u.pn = s.pn
        /\ u.nr = m.n /\ u.ckr = [root |-> s.ckr.root, step |-> m.n]
    BY <2>2, <2>3, CatchUp
  <2>5. CachedFrom(s, u, m)
    BY <2>2, <2>3, CatchUp
  <2>6. /\ \A c \in s.nr .. (m.n - 1) : <<s.dhr, c>> \in DOMAIN u.skipped
        /\ DOMAIN s.skipped \subseteq DOMAIN u.skipped
    BY <2>2, <2>3, CatchUp
  <2>7. v = consumeKey(u)
    BY <2>1, <2>2 DEF After
  <2>8. KDF_CK(u.ckr) = [root |-> s.ckr.root, step |-> m.n + 1]
    <3>1. u.ckr \in ChainKey /\ u.ckr.root = s.ckr.root /\ u.ckr.step = m.n
      BY <1>1, <2>4, KeyForms
    <3> QED BY <3>1, KeyForms
  <2>9. /\ v.dhs = s.dhs /\ v.dhr = s.dhr /\ v.root = s.root /\ v.cks = s.cks
        /\ v.ns = s.ns /\ v.pn = s.pn /\ v.nr = m.n + 1 /\ v.skipped = u.skipped
        /\ v.ckr = [root |-> s.ckr.root, step |-> m.n + 1]
    BY <1>1, <2>4, <2>7, <2>8 DEF consumeKey
  <2>10. Finds(s, m)
    BY <1>1, <2>1, <2>2, <2>4 DEF Finds
  <2>11. Moved(s, v, m)
    BY <1>1, <2>5, <2>9 DEF Moved, CachedFrom
  <2>12. Counted(v, f)
    <3>1. v.ckr.step = v.nr
      BY <2>9
    <3>2. ASSUME NEW l \in DOMAIN v.skipped PROVE l[1] < f /\ (l[1] = v.dhr => l[2] < v.nr)
      <4>1. CASE l \in DOMAIN s.skipped
        <5>1. l[1] < f /\ (l[1] = s.dhr => l[2] < s.nr)
          BY <4>1 DEF Counted
        <5>2. l[2] \in Nat
          BY <4>1 DEF Receiving, IsSessionState, IsSkippedMap, Label
        <5> QED BY <1>1, <1>3, <2>9, <5>1, <5>2
      <4>2. CASE l[1] = s.dhr /\ l[2] \in s.nr .. (m.n - 1)
        BY <1>1, <2>9, <4>2
      <4> QED BY <2>5, <2>9, <4>1, <4>2 DEF CachedFrom
    <3> QED BY <3>1, <3>2 DEF Counted
  <2>13. ASSUME NEW x \in Message, OnChain(x, s.dhr, s.ckr.root), x.n # m.n, Opens(s, x)
         PROVE  Opens(v, x)
    <3>1. x.n \in Nat /\ x.dh = s.dhr /\ x.mk = [root |-> s.ckr.root, step |-> x.n]
      BY <2>13 DEF Message, OnChain
    <3>2. SUFFICES ASSUME x.n < m.n
                   PROVE  LabelOf(x) \in DOMAIN u.skipped /\ u.skipped[LabelOf(x)] = x.mk
      BY <1>1, <2>9, <2>13, <3>1 DEF Opens
    <3>3. CASE x.n < s.nr
      <4>1. LabelOf(x) \in DOMAIN s.skipped /\ s.skipped[LabelOf(x)] = x.mk
        BY <2>13, <3>3 DEF Opens
      <4>2. LabelOf(x) \in DOMAIN u.skipped /\ LabelOf(x)[2] = x.n
        BY <2>6, <4>1 DEF LabelOf
      <4>3. ~(x.n \in s.nr .. (m.n - 1))
        BY <1>1, <3>1, <3>3
      <4> QED BY <2>5, <4>1, <4>2, <4>3 DEF CachedFrom
    <3>4. CASE ~(x.n < s.nr)
      <4>1. x.n \in s.nr .. (m.n - 1)
        BY <1>1, <3>1, <3>2, <3>4
      <4>2. LabelOf(x) \in DOMAIN u.skipped /\ LabelOf(x)[1] = s.dhr /\ LabelOf(x)[2] = x.n
        BY <2>6, <3>1, <4>1 DEF LabelOf
      <4>3. LabelOf(x) \notin DOMAIN s.skipped
        BY <1>1, <3>1, <3>4, <4>2 DEF Counted
      <4> QED BY <2>5, <3>1, <4>2, <4>3 DEF CachedFrom
    <3> QED BY <3>3, <3>4
  <2> QED BY <2>10, <2>11, <2>12, <2>13
<1> QED BY <1>2, <1>3

-----------------------------------------------------------------------------
(* Following the header *)

\* The fields of newReceivingChain.
LEMMA Steps ==
  ASSUME NEW s, NEW f \in KeyPair, Good(s, f), NEW d \in KeyPair
  PROVE  /\ newReceivingChain(s, d).root = KDF_RK(s.root, DH(s.dhs, d))
         /\ newReceivingChain(s, d).ckr = [root |-> KDF_RK(s.root, DH(s.dhs, d)), step |-> 0]
         /\ newReceivingChain(s, d).nr = 0 /\ newReceivingChain(s, d).dhr = d
         /\ newReceivingChain(s, d).dhs = s.dhs /\ newReceivingChain(s, d).cks = s.cks
         /\ newReceivingChain(s, d).ns = s.ns /\ newReceivingChain(s, d).pn = s.pn
         /\ newReceivingChain(s, d).skipped = s.skipped
         /\ KDF_RK(s.root, DH(s.dhs, d)) \in RootKey
<1>1. s.root \in RootKey /\ DH(s.dhs, d) \in SUBSET KeyPair
  BY DEF Good, IsSessionState, DH
<1>2. KDF_RK(s.root, DH(s.dhs, d)) \in RootKey
  BY <1>1, RootKeyStep
<1>3. PICK rk \in RootKey : rk = KDF_RK(s.root, DH(s.dhs, d))
  BY <1>2
<1>4. newReceivingChain(s, d) = [s EXCEPT !.root = rk, !.ckr = ChainOf(rk), !.nr = 0, !.dhr = d]
  BY <1>3 DEF newReceivingChain
<1>5. ChainOf(rk) = [root |-> rk, step |-> 0]
  BY KeyForms
<1>6. DOMAIN s = {"dhs", "dhr", "root", "cks", "ns", "pn", "ckr", "nr", "skipped"}
  BY DEF Good, IsSessionState
<1> QED BY <1>2, <1>3, <1>4, <1>5, <1>6

\* The fields of dhRatchetSend.
LEMMA SendSteps ==
  ASSUME NEW s, NEW f \in KeyPair, Good(s, f), s.dhr \in KeyPair
  PROVE  /\ dhRatchetSend(s, f).root = KDF_RK(s.root, DH(f, s.dhr))
         /\ dhRatchetSend(s, f).cks = [root |-> KDF_RK(s.root, DH(f, s.dhr)), step |-> 0]
         /\ dhRatchetSend(s, f).ns = 0 /\ dhRatchetSend(s, f).pn = s.ns
         /\ dhRatchetSend(s, f).dhs = f /\ dhRatchetSend(s, f).dhr = s.dhr
         /\ dhRatchetSend(s, f).ckr = s.ckr /\ dhRatchetSend(s, f).nr = s.nr
         /\ dhRatchetSend(s, f).skipped = s.skipped
<1>1. s.root \in RootKey /\ DH(f, s.dhr) \in SUBSET KeyPair
  BY DEF Good, IsSessionState, DH
<1>2. PICK rk \in RootKey : rk = KDF_RK(s.root, DH(f, s.dhr))
  BY <1>1, RootKeyStep
<1>3. dhRatchetSend(s, f) = [s EXCEPT !.pn = s.ns, !.dhs = f, !.root = rk, !.cks = ChainOf(rk), !.ns = 0]
  BY <1>2 DEF dhRatchetSend
<1>4. ChainOf(rk) = [root |-> rk, step |-> 0]
  BY KeyForms
<1>5. DOMAIN s = {"dhs", "dhr", "root", "cks", "ns", "pn", "ckr", "nr", "skipped"}
  BY DEF Good, IsSessionState
<1> QED BY <1>2, <1>3, <1>4, <1>5

\* What cacheSkippedKeys leaves in the cache: keys of the chain up to its length.
CachedTo(s, t, n) ==
  \A l \in DOMAIN t.skipped :
    \/ l \in DOMAIN s.skipped /\ t.skipped[l] = s.skipped[l]
    \/ /\ s.ckr # Nil /\ l \in Label /\ l[1] = s.dhr /\ l[2] \in s.nr .. (n - 1)
       /\ t.skipped[l] = [root |-> s.ckr.root, step |-> l[2]]

\* cacheSkippedKeys changes the receiving chain and the cache only.
LEMMA FinishChain ==
  ASSUME NEW s, NEW f \in KeyPair, Good(s, f), Counted(s, f), s.dhr \in KeyPair, NEW n \in Nat,
         NEW x, x = cacheSkippedKeys(s, n)
  PROVE  /\ Good(x, f) /\ CachedTo(s, x, n)
         /\ x.dhs = s.dhs /\ x.root = s.root /\ x.cks = s.cks /\ x.ns = s.ns /\ x.pn = s.pn
<1>1. CASE s.ckr = Nil
  BY <1>1 DEF cacheSkippedKeys, CachedTo
<1>2. CASE s.ckr # Nil
  <2>1. Receiving(s) /\ x = advanceReceivingChain(s, n)
    BY <1>2 DEF Good, IsSessionState, Receiving, cacheSkippedKeys
  <2>2. Good(x, f)
    BY <2>1, AdvanceReceivingChain
  <2>3. CASE ~(s.nr < n)
    BY <2>1, <2>2, <2>3 DEF advanceReceivingChain, CachedTo
  <2>4. CASE s.nr < n
    <3>1. /\ x.dhs = s.dhs /\ x.root = s.root /\ x.cks = s.cks /\ x.ns = s.ns /\ x.pn = s.pn
          /\ x.skipped = CacheKeys(s, n)
      BY <2>1, <2>4 DEF advanceReceivingChain, Receiving, IsSessionState
    <3>2. CacheGrows(s, x.skipped, n)
      BY <2>1, <3>1, CacheKeysGrows
    <3>3. ASSUME NEW c \in s.nr .. (n - 1)
          PROVE  KDF_CKn(s.ckr, c - s.nr) = [root |-> s.ckr.root, step |-> c]
      <4>1. s.nr \in Nat /\ s.ckr \in ChainKey /\ s.ckr.step = s.nr
        BY <1>2, <2>1 DEF Receiving, IsSessionState, Counted
      <4>2. PICK k \in Nat : k = c - s.nr
        BY <4>1
      <4>3. KDF_CKn(s.ckr, k) = [root |-> s.ckr.root, step |-> s.nr + k] /\ s.nr + k = c
        BY <4>1, <4>2, KeyForms
      <4> QED BY <4>2, <4>3
    <3>4. CachedTo(s, x, n)
      BY <1>2, <3>2, <3>3 DEF CacheGrows, CachedTo
    <3> QED BY <2>2, <3>1, <3>4
  <2> QED BY <2>3, <2>4
<1> QED BY <1>1, <1>2

\* followHeader with a full DH ratchet step.
LEMMA FollowRatchet ==
  ASSUME NEW s, NEW f \in KeyPair, Good(s, f), Counted(s, f), NEW m \in Message, m.dh < f,
         NeedsRatchet(s, m), \A l \in DOMAIN s.skipped : l[1] # m.dh,
         NEW t, t = followHeader(s, m, f),
         NEW rk, rk = KDF_RK(s.root, DH(s.dhs, m.dh))
  PROVE  /\ Good(t, f + 1) /\ Receiving(t) /\ Counted(t, f + 1) /\ CachedTo(s, t, m.pn)
         /\ t.dhs = f /\ t.dhr = m.dh /\ t.ns = 0 /\ t.pn = s.ns /\ t.nr = 0
         /\ t.ckr = [root |-> rk, step |-> 0] /\ rk \in RootKey
         /\ t.root = KDF_RK(rk, DH(f, m.dh)) /\ t.cks = [root |-> t.root, step |-> 0]
<1>1. m.dh \in KeyPair /\ m.pn \in Nat /\ s.dhr \in KeyPair /\ s.dhr # m.dh /\ s.dhr < f
  BY DEF Message, NeedsRatchet, Good, IsSessionState, SessionInv
<1>2. PICK x : x = cacheSkippedKeys(s, m.pn)
  OBVIOUS
<1>3. /\ Good(x, f) /\ CachedTo(s, x, m.pn)
      /\ x.dhs = s.dhs /\ x.root = s.root /\ x.cks = s.cks /\ x.ns = s.ns /\ x.pn = s.pn
  BY <1>1, <1>2, FinishChain
<1>4. PICK y : y = newReceivingChain(x, m.dh)
  OBVIOUS
<1>5. Good(y, f) /\ Receiving(y)
  BY <1>1, <1>3, <1>4, NewReceivingChain
<1>6. /\ y.root = rk /\ y.ckr = [root |-> rk, step |-> 0] /\ y.nr = 0 /\ y.dhr = m.dh /\ y.ns = s.ns
      /\ y.skipped = x.skipped /\ rk \in RootKey
  BY <1>1, <1>3, <1>4, Steps
<1>7. t = dhRatchetSend(y, f)
  BY <1>2, <1>4 DEF followHeader, dhRatchetReceive
<1>8. y.dhr # Nil
  BY <1>1, <1>6, NilAssumption
<1>9. Good(t, f + 1)
  BY <1>5, <1>7, <1>8, NewSendingChain
<1>10. /\ t.root = KDF_RK(rk, DH(f, m.dh)) /\ t.cks = [root |-> t.root, step |-> 0]
       /\ t.ns = 0 /\ t.pn = s.ns /\ t.dhs = f /\ t.dhr = m.dh /\ t.nr = 0
       /\ t.ckr = [root |-> rk, step |-> 0] /\ t.skipped = x.skipped
  <2>1. y.dhr \in KeyPair
    BY <1>1, <1>6
  <2>2. /\ t.root = KDF_RK(y.root, DH(f, y.dhr))
        /\ t.cks = [root |-> KDF_RK(y.root, DH(f, y.dhr)), step |-> 0]
        /\ t.ns = 0 /\ t.pn = y.ns /\ t.dhs = f /\ t.dhr = y.dhr
        /\ t.ckr = y.ckr /\ t.nr = y.nr /\ t.skipped = y.skipped
    BY <1>5, <1>7, <2>1, SendSteps
  <2> QED BY <1>6, <2>2
<1>11. CachedTo(s, t, m.pn)
  BY <1>3, <1>10 DEF CachedTo
<1>12. Receiving(t)
  <2>1. t.ckr \in ChainKey
    BY <1>6, <1>10, KeyForms
  <2> QED BY <1>1, <1>9, <1>10, <2>1 DEF Receiving, Good
<1>13. Counted(t, f + 1)
  <2>1. ASSUME NEW l \in DOMAIN t.skipped PROVE l[1] < f + 1 /\ l[1] # m.dh
    <3>1. CASE l \in DOMAIN s.skipped
      <4>1. l[1] < f /\ l[1] \in KeyPair
        BY <3>1 DEF Counted, Good, IsSessionState, IsSkippedMap, Label
      <4> QED BY <3>1, <4>1 DEF KeyPair
    <3>2. CASE l[1] = s.dhr
      BY <1>1, <3>2 DEF KeyPair
    <3> QED BY <1>11, <3>1, <3>2 DEF CachedTo
  <2> QED BY <1>10, <2>1 DEF Counted
<1> QED BY <1>6, <1>9, <1>10, <1>11, <1>12, <1>13

\* followHeader on the responder's first receipt.
LEMMA FollowFirst ==
  ASSUME NEW s, NEW f \in KeyPair, Good(s, f), Counted(s, f), NEW m \in Message, m.dh < f,
         s.dhr = Nil, \A l \in DOMAIN s.skipped : l[1] # m.dh,
         NEW t, t = followHeader(s, m, f),
         NEW rk, rk = KDF_RK(s.root, DH(s.dhs, m.dh))
  PROVE  /\ Good(t, f) /\ Receiving(t) /\ Counted(t, f) /\ t.skipped = s.skipped
         /\ t.dhs = s.dhs /\ t.dhr = m.dh /\ t.ns = s.ns /\ t.pn = s.pn /\ t.nr = 0
         /\ t.ckr = [root |-> rk, step |-> 0] /\ rk \in RootKey
         /\ t.root = rk /\ t.cks = s.cks
<1>1. m.dh \in KeyPair
  BY DEF Message
<1>2. t = newReceivingChain(s, m.dh)
  BY DEF followHeader, NeedsRatchet
<1>3. Good(t, f) /\ Receiving(t)
  BY <1>1, <1>2, NewReceivingChain
<1>4. /\ t.dhs = s.dhs /\ t.dhr = m.dh /\ t.ns = s.ns /\ t.pn = s.pn /\ t.nr = 0
      /\ t.ckr = [root |-> rk, step |-> 0] /\ rk \in RootKey
      /\ t.root = rk /\ t.cks = s.cks /\ t.skipped = s.skipped
  BY <1>1, <1>2, Steps
<1>5. Counted(t, f)
  BY <1>4 DEF Counted
<1> QED BY <1>3, <1>4, <1>5

-----------------------------------------------------------------------------
(* One delivery, seen from the two session states *)

\* What holds when s is about to decrypt m, t having sealed it: A and B are in
\* flight to s and to t, and f is the next key pair.
Setting(s, t, A, B, m, f) ==
  /\ f \in KeyPair /\ Good(s, f) /\ Good(t, f) /\ Counted(s, f) /\ Counted(t, f)
  /\ A \subseteq Message /\ B \subseteq Message /\ m \in A /\ m.dh < f
  /\ m.dh = t.dhs => m.n < t.ns /\ \A x \in A : x.dh = m.dh
  /\ Sync(s, t, A, B) \/ Sync(t, s, B, A)

\* m belongs to the chain that s is receiving on, or to the one t has just begun.
OldChain(s, m) == s.ckr # Nil /\ OnChain(m, s.dhr, s.ckr.root) /\ Opens(s, m)

NewChain(s, t, A, B, m) ==
  /\ Leads(t, s, B, A)
  /\ OnChain(m, t.dhs, t.root) /\ m.pn = t.pn /\ m.dh # s.dhr

\* Every message in flight is of the chain its receiver is on, or of the next.
LEMMA OldOrNew ==
  ASSUME NEW s, NEW t, NEW A, NEW B, NEW m, NEW f, Setting(s, t, A, B, m, f)
  PROVE  OldChain(s, m) \/ NewChain(s, t, A, B, m)
<1>1. /\ m \in A /\ m \in Message /\ s.nr \in Nat /\ t.root \in RootKey /\ s.root \in RootKey
      /\ t.dhs \in KeyPair /\ s.dhs \in KeyPair
  BY DEF Setting, Good, IsSessionState
<1>2. CASE Leads(s, t, A, B)
  <2>1. s.ckr = [root |-> t.root, step |-> s.nr] /\ OnChain(m, t.dhs, t.root) /\ Opens(s, m)
        /\ s.dhr = t.dhs
    BY <1>1, <1>2 DEF Leads
  <2>2. s.ckr \in ChainKey /\ s.ckr.root = t.root
    BY <1>1, <2>1, KeyForms
  <2> QED BY <2>1, <2>2, KeyForms DEF OldChain
<1>3. CASE Even(s, t, A, B)
  BY <1>1, <1>3 DEF Even
<1>4. CASE Leads(t, s, B, A)
  <2>1. CASE OnChain(m, t.dhs, t.root) /\ m.pn = t.pn
    BY <1>4, <2>1 DEF NewChain, Leads, OnChain
  <2>2. CASE s.ckr # Nil /\ OnChain(m, s.dhr, s.ckr.root) /\ Opens(s, m)
    BY <2>2 DEF OldChain
  <2> QED BY <1>1, <1>4, <2>1, <2>2 DEF Leads
<1>5. CASE Even(t, s, B, A)
  <2>1. s.ckr = [root |-> t.root, step |-> s.nr] /\ OnChain(m, t.dhs, t.root) /\ Opens(s, m)
        /\ s.dhr = t.dhs
    BY <1>1, <1>5 DEF Even
  <2>2. s.ckr \in ChainKey /\ s.ckr.root = t.root
    BY <1>1, <2>1, KeyForms
  <2> QED BY <2>1, <2>2, KeyForms DEF OldChain
<1> QED BY <1>2, <1>3, <1>4, <1>5 DEF Setting, Sync

\* followHeader does nothing for a message of the current chain.
LEMMA StayOnChain ==
  ASSUME NEW s, NEW f \in KeyPair, Good(s, f), NEW m, OldChain(s, m)
  PROVE  /\ followHeader(s, m, f) = s /\ ~NeedsRatchet(s, m) /\ Receiving(s)
         /\ s.dhr \in KeyPair /\ s.dhr < f /\ m.dh = s.dhr
<1>1. s.dhr # Nil /\ s.ckr # Nil /\ m.dh = s.dhr
  BY DEF Good, SessionInv, OldChain, OnChain
<1>2. s.dhr \in KeyPair /\ Receiving(s)
  BY <1>1 DEF Good, IsSessionState, Receiving
<1>3. s.dhr < f
  BY <1>1 DEF Good, SessionInv
<1> QED BY <1>1, <1>2, <1>3 DEF followHeader, NeedsRatchet

\* z is s after following a header of t's new chain, f and g being the next key
\* pairs before and after.
Stepped(s, t, z, f, g) ==
  /\ Good(z, g) /\ Receiving(z) /\ Counted(z, g) /\ g \in KeyPair
  /\ z.dhr = t.dhs /\ z.dhr \in KeyPair /\ z.dhr < g /\ z.nr = 0
  /\ z.ckr = [root |-> t.root, step |-> 0] /\ z.ckr.root = t.root
  /\ CachedTo(s, z, t.pn) /\ Depth(t.root) = Depth(s.root) + 1
  /\ s.dhr # t.dhs
  /\ \/ /\ s.dhr = Nil /\ g = f
        /\ z.dhs = s.dhs /\ z.ns = s.ns /\ z.pn = s.pn /\ z.root = t.root /\ z.cks = s.cks
     \/ /\ s.dhr # Nil /\ g = f + 1
        /\ z.dhs = f /\ z.ns = 0 /\ z.pn = s.ns /\ z.root = KDF_RK(t.root, DH(f, t.dhs))
        /\ z.cks = [root |-> z.root, step |-> 0]

\* The DH ratchet step of s meets the root key of t.
LEMMA TakeStep ==
  ASSUME NEW s, NEW t, NEW A, NEW B, NEW m, NEW f, Setting(s, t, A, B, m, f),
         NewChain(s, t, A, B, m)
  PROVE  Stepped(s, t, followHeader(s, m, f), f, NextFresh(s, m, f))
<1> SUFFICES ASSUME NEW z, z = followHeader(s, m, f), NEW g, g = NextFresh(s, m, f)
             PROVE  Stepped(s, t, z, f, g)
  OBVIOUS
<1>1. /\ f \in KeyPair /\ Good(s, f) /\ Counted(s, f) /\ m \in Message /\ m.dh < f /\ m.dh = t.dhs
      /\ m.pn = t.pn /\ m.dh # s.dhr /\ \A l \in DOMAIN s.skipped : l[1] # m.dh
      /\ s.dhs \in KeyPair /\ t.dhs \in KeyPair /\ s.root \in RootKey /\ t.root \in RootKey
  BY DEF Setting, NewChain, Leads, OnChain, Good, IsSessionState
<1>2. t.root = KDF_RK(s.root, DH(s.dhs, m.dh))
  <2>1. t.root = KDF_RK(s.root, DH(t.dhs, s.dhs))
    BY DEF NewChain, Leads
  <2>2. DH(t.dhs, s.dhs) = DH(s.dhs, m.dh)
    BY <1>1 DEF DH
  <2> QED BY <2>1, <2>2
<1>3. Depth(t.root) = Depth(s.root) + 1
  <2>1. DH(s.dhs, m.dh) \in SUBSET KeyPair
    BY <1>1 DEF DH
  <2> QED BY <1>1, <1>2, <2>1, RootKeyStep
<1>4. CASE s.dhr = Nil
  <2>1. ~NeedsRatchet(s, m) /\ g = f
    BY <1>4 DEF NeedsRatchet, NextFresh
  <2>2. /\ Good(z, f) /\ Receiving(z) /\ Counted(z, f) /\ z.skipped = s.skipped
        /\ z.dhs = s.dhs /\ z.dhr = m.dh /\ z.ns = s.ns /\ z.pn = s.pn /\ z.nr = 0
        /\ z.ckr = [root |-> t.root, step |-> 0]
        /\ z.root = t.root /\ z.cks = s.cks
    BY <1>1, <1>2, <1>4, FollowFirst
  <2>3. CachedTo(s, z, t.pn)
    BY <2>2 DEF CachedTo
  <2> QED BY <1>1, <1>3, <1>4, <2>1, <2>2, <2>3, KeyForms DEF Stepped
<1>5. CASE s.dhr # Nil
  <2>1. NeedsRatchet(s, m) /\ g = f + 1
    BY <1>1, <1>5 DEF NeedsRatchet, NextFresh
  <2>2. /\ Good(z, f + 1) /\ Receiving(z) /\ Counted(z, f + 1) /\ CachedTo(s, z, m.pn)
        /\ z.dhs = f /\ z.dhr = m.dh /\ z.ns = 0 /\ z.pn = s.ns /\ z.nr = 0
        /\ z.ckr = [root |-> t.root, step |-> 0]
        /\ z.root = KDF_RK(t.root, DH(f, m.dh)) /\ z.cks = [root |-> z.root, step |-> 0]
    BY <1>1, <1>2, <2>1, FollowRatchet
  <2>3. f + 1 \in KeyPair /\ m.dh < f + 1
    BY <1>1 DEF KeyPair
  <2> QED BY <1>1, <1>3, <1>5, <2>1, <2>2, <2>3, KeyForms DEF Stepped
<1> QED BY <1>4, <1>5

\* Reading a message of the chain s is on.
LEMMA ReceiveOld ==
  ASSUME NEW s, NEW t, NEW A, NEW B, NEW m, NEW f, Setting(s, t, A, B, m, f),
         OldChain(s, m), Room(s, m.n), NEW v, v = After(s, m),
         NEW A1 \in SUBSET A, \A x \in A1 : x.dh = m.dh => x.n # m.n
  PROVE  /\ Finds(s, m) /\ Moved(s, v, m) /\ Counted(v, f)
         /\ Sync(v, t, A1, B) \/ Sync(t, v, B, A1)
<1>1. /\ f \in KeyPair /\ Good(s, f) /\ Counted(s, f) /\ m \in Message /\ m \in A
      /\ A1 \subseteq Message
      /\ s.nr \in Nat /\ t.ns \in Nat /\ m.n \in Nat /\ t.root \in RootKey /\ s.root \in RootKey
      /\ t.dhs \in KeyPair
  BY DEF Setting, Good, IsSessionState, Message
<1>2. Receiving(s) /\ s.dhr \in KeyPair /\ s.dhr < f /\ m.dh = s.dhr /\ s.ckr # Nil
      /\ OnChain(m, s.dhr, s.ckr.root) /\ Opens(s, m)
  BY <1>1, StayOnChain DEF OldChain
<1>3. Finds(s, m) /\ Moved(s, v, m) /\ Counted(v, f)
  BY <1>1, <1>2, OpenAlong
<1>4. \A x \in Message :
        OnChain(x, s.dhr, s.ckr.root) /\ x.n # m.n /\ Opens(s, x) => Opens(v, x)
  BY <1>1, <1>2, OpenAlong
<1>5. /\ v.dhs = s.dhs /\ v.dhr = s.dhr /\ v.root = s.root /\ v.cks = s.cks
      /\ v.ns = s.ns /\ v.pn = s.pn
      /\ v.nr \in Nat /\ v.ckr = [root |-> s.ckr.root, step |-> v.nr]
  BY <1>3 DEF Moved
<1>6. s.ckr \in ChainKey /\ s.ckr.root \in RootKey /\ v.ckr # Nil /\ v.ckr.root = s.ckr.root
  <2>1. s.ckr \in ChainKey
    BY <1>2 DEF Receiving
  <2> QED BY <1>5, <2>1, KeyForms
<1>7. s.dhr = t.dhs /\ s.nr <= t.ns => v.nr <= t.ns
  <2>1. SUFFICES ASSUME s.dhr = t.dhs, s.nr <= t.ns PROVE v.nr <= t.ns
    OBVIOUS
  <2>2. m.n < t.ns
    BY <1>2, <2>1 DEF Setting
  <2>3. v.nr <= s.nr \/ v.nr = m.n + 1
    BY <1>3 DEF Moved
  <2> QED BY <1>1, <1>5, <2>1, <2>2, <2>3
<1>8. ASSUME NEW x \in A1, OnChain(x, s.dhr, s.ckr.root), Opens(s, x) PROVE Opens(v, x)
  <2>1. x \in Message /\ x.n # m.n
    BY <1>1, <1>2, <1>8 DEF OnChain
  <2> QED BY <1>4, <1>8, <2>1
<1>9. CASE Leads(s, t, A, B)
  <2>1. /\ s.ckr = [root |-> t.root, step |-> s.nr] /\ s.nr <= t.ns /\ s.dhr = t.dhs
        /\ t.cks = [root |-> t.root, step |-> t.ns] /\ t.dhr # Nil
    BY <1>1, <1>2, <1>9 DEF Leads
  <2>2. s.ckr.root = t.root
    BY <1>1, <2>1, KeyForms
  <2>3. \A x \in A1 : OnChain(x, t.dhs, t.root) /\ Opens(v, x)
    BY <1>8, <1>9, <2>1, <2>2 DEF Leads
  <2>4. /\ v.dhr = t.dhs /\ t.dhr # v.dhs
        /\ v.root = KDF_RK(t.root, DH(v.dhs, t.dhs))
        /\ v.cks = [root |-> v.root, step |-> v.ns]
        /\ \A l \in DOMAIN t.skipped : l[1] # v.dhs
        /\ v.ckr = [root |-> t.root, step |-> v.nr] /\ v.nr <= t.ns
    BY <1>5, <1>7, <1>9, <2>1, <2>2 DEF Leads
  <2>5. \A x \in B :
          \/ OnChain(x, v.dhs, v.root) /\ x.pn = v.pn
          \/ t.ckr # Nil /\ OnChain(x, t.dhr, t.ckr.root) /\ Opens(t, x)
    BY <1>5, <1>9 DEF Leads
  <2>6. Leads(v, t, A1, B)
    BY <2>1, <2>3, <2>4, <2>5 DEF Leads
  <2> QED BY <1>3, <2>6 DEF Sync
<1>10. CASE Even(s, t, A, B)
  BY <1>1, <1>10 DEF Even
<1>11. CASE Leads(t, s, B, A)
  <2>1. /\ t.dhr = v.dhs /\ v.dhr # t.dhs
        /\ t.root = KDF_RK(v.root, DH(t.dhs, v.dhs))
        /\ t.cks = [root |-> t.root, step |-> t.ns]
        /\ \/ v.cks = Nil /\ v.dhr = Nil /\ t.ckr = Nil /\ B = {}
           \/ /\ v.cks = [root |-> v.root, step |-> v.ns] /\ v.dhr # Nil
              /\ t.ckr = [root |-> v.root, step |-> t.nr] /\ t.nr <= v.ns
        /\ \A x \in B : OnChain(x, v.dhs, v.root) /\ Opens(t, x)
    BY <1>5, <1>11 DEF Leads
  <2>2. \A l \in DOMAIN v.skipped : l[1] # t.dhs
    BY <1>3, <1>5, <1>11, <2>1 DEF Leads, Moved, CachedFrom
  <2>3. \A x \in A1 :
          \/ OnChain(x, t.dhs, t.root) /\ x.pn = t.pn
          \/ v.ckr # Nil /\ OnChain(x, v.dhr, v.ckr.root) /\ Opens(v, x)
    BY <1>5, <1>6, <1>8, <1>11 DEF Leads
  <2>4. Leads(t, v, B, A1)
    BY <2>1, <2>2, <2>3 DEF Leads
  <2> QED BY <1>3, <2>4 DEF Sync
<1>12. CASE Even(t, s, B, A)
  <2>1. /\ s.ckr = [root |-> t.root, step |-> s.nr] /\ s.nr <= t.ns /\ s.dhr = t.dhs
    BY <1>12 DEF Even
  <2>2. s.ckr.root = t.root
    BY <1>1, <2>1, KeyForms
  <2>3. \A x \in A1 : OnChain(x, t.dhs, t.root) /\ Opens(v, x)
    BY <1>8, <1>12, <2>1, <2>2 DEF Even
  <2>4. Even(t, v, B, A1)
    BY <1>5, <1>7, <1>12, <2>1, <2>2, <2>3 DEF Even
  <2> QED BY <1>3, <2>4 DEF Sync
<1> QED BY <1>9, <1>10, <1>11, <1>12 DEF Setting, Sync

\* Reading the first message of a chain that arrives.
LEMMA ReceiveNew ==
  ASSUME NEW s, NEW t, NEW A, NEW B, NEW m, NEW f, Setting(s, t, A, B, m, f),
         NewChain(s, t, A, B, m), NEW z, z = followHeader(s, m, f), Room(z, m.n),
         NEW g, g = NextFresh(s, m, f), NEW v, v = After(z, m),
         NEW A1 \in SUBSET A, \A x \in A1 : x.dh = m.dh => x.n # m.n
  PROVE  /\ Finds(z, m) /\ Moved(z, v, m) /\ Counted(v, g)
         /\ Sync(v, t, A1, B) \/ Sync(t, v, B, A1)
<1>1. /\ f \in KeyPair /\ m \in Message /\ m \in A /\ A1 \subseteq Message
      /\ t.ns \in Nat /\ m.n \in Nat /\ t.root \in RootKey /\ s.root \in RootKey
      /\ t.dhs \in KeyPair /\ Counted(t, f)
  BY DEF Setting, Good, IsSessionState, Message
<1>a. Stepped(s, t, z, f, g)
  BY TakeStep
<1>2. /\ Receiving(z) /\ Counted(z, g) /\ g \in KeyPair
      /\ z.dhr = t.dhs /\ z.dhr < g /\ z.nr = 0
      /\ z.ckr = [root |-> t.root, step |-> 0] /\ z.ckr.root = t.root
      /\ s.dhr # t.dhs /\ m.dh = t.dhs
  BY <1>a DEF Stepped, NewChain, OnChain
<1>3. m.n < t.ns /\ \A x \in A : x.dh = t.dhs
  BY <1>2 DEF Setting
<1>4. OnChain(m, z.dhr, z.ckr.root) /\ Opens(z, m)
  BY <1>1, <1>2 DEF NewChain, Opens
<1>5. Finds(z, m) /\ Moved(z, v, m) /\ Counted(v, g)
  BY <1>1, <1>2, <1>4, OpenAlong
<1>6. \A x \in Message :
        OnChain(x, z.dhr, z.ckr.root) /\ x.n # m.n /\ Opens(z, x) => Opens(v, x)
  BY <1>1, <1>2, <1>4, OpenAlong
<1>7. ASSUME NEW x \in A1 PROVE OnChain(x, t.dhs, t.root) /\ Opens(v, x)
  <2>1. x \in Message /\ x.dh = t.dhs /\ x.n # m.n /\ x.n \in Nat /\ x \in A
    BY <1>1, <1>2, <1>3 DEF Message
  <2>2. OnChain(x, t.dhs, t.root)
    BY <1>2, <2>1 DEF NewChain, Leads, OnChain
  <2>3. Opens(z, x)
    BY <1>2, <2>1 DEF Opens
  <2> QED BY <1>2, <1>6, <2>1, <2>2, <2>3
<1>8. /\ v.dhs = z.dhs /\ v.dhr = t.dhs /\ v.root = z.root /\ v.cks = z.cks
      /\ v.ns = z.ns /\ v.pn = z.pn
      /\ v.nr \in Nat /\ v.ckr = [root |-> t.root, step |-> v.nr]
  BY <1>2, <1>5 DEF Moved
<1>9. v.nr <= t.ns
  <2>1. v.nr <= z.nr \/ v.nr = m.n + 1
    BY <1>5 DEF Moved
  <2> QED BY <1>1, <1>2, <1>3, <1>8, <2>1
<1>10. CASE s.dhr = Nil
  <2>1. z.dhs = s.dhs /\ z.ns = s.ns /\ z.pn = s.pn /\ z.root = t.root /\ z.cks = s.cks
    BY <1>a, <1>10 DEF Stepped
  <2>2. s.cks = Nil /\ t.ckr = Nil /\ B = {} /\ t.dhr = s.dhs
        /\ t.cks = [root |-> t.root, step |-> t.ns]
    BY <1>10 DEF NewChain, Leads
  <2>3. t.dhr # Nil
    BY <2>2, NilAssumption DEF Setting, Good, IsSessionState
  <2>4. Even(t, v, B, A1)
    BY <1>7, <1>8, <1>9, <2>1, <2>2, <2>3 DEF Even
  <2> QED BY <1>5, <2>4 DEF Sync
<1>11. CASE s.dhr # Nil
  <2>1. /\ z.dhs = f /\ z.ns = 0 /\ z.pn = s.ns /\ z.root = KDF_RK(t.root, DH(f, t.dhs))
        /\ z.cks = [root |-> z.root, step |-> 0]
    BY <1>a, <1>11 DEF Stepped
  <2>2. /\ s.cks = [root |-> s.root, step |-> s.ns] /\ t.dhr = s.dhs
        /\ t.ckr = [root |-> s.root, step |-> t.nr] /\ t.nr \in Nat
        /\ t.cks = [root |-> t.root, step |-> t.ns]
    BY <1>11 DEF NewChain, Leads, Setting, Good, IsSessionState
  <2>3. t.dhr # Nil /\ t.dhr < f /\ t.dhr \in Nat
    BY <2>2, NilAssumption DEF Setting, Good, IsSessionState, SessionInv, KeyPair
  <2>4. t.dhr # f
    BY <1>1, <2>3 DEF KeyPair
  <2>5. \A l \in DOMAIN t.skipped : l[1] # f
    <3>1. \A l \in DOMAIN t.skipped : l[1] < f /\ l[1] \in Nat
      BY <1>1 DEF Counted, Setting, Good, IsSessionState, IsSkippedMap, Label, KeyPair
    <3> QED BY <1>1, <3>1 DEF KeyPair
  <2>6. t.ckr # Nil /\ t.ckr.root = s.root
    BY <1>1, <2>2, KeyForms
  <2>7. \A x \in B : t.ckr # Nil /\ OnChain(x, t.dhr, t.ckr.root) /\ Opens(t, x)
    BY <2>2, <2>6 DEF NewChain, Leads
  <2>8. /\ v.dhr = t.dhs /\ t.dhr # v.dhs
        /\ v.root = KDF_RK(t.root, DH(v.dhs, t.dhs))
        /\ v.cks = [root |-> v.root, step |-> v.ns]
        /\ \A l \in DOMAIN t.skipped : l[1] # v.dhs
    BY <1>8, <2>1, <2>4, <2>5
  <2>9. Leads(v, t, A1, B)
    BY <1>7, <1>8, <1>9, <2>2, <2>3, <2>7, <2>8 DEF Leads
  <2> QED BY <1>5, <2>9 DEF Sync
<1> QED BY <1>10, <1>11

-----------------------------------------------------------------------------
(* Counting the labels that need room *)

\* Labels of consecutive counters outside D are as many as the counters.
LEMMA LabelsCounted ==
  ASSUME NEW D, IsFiniteSet(D), NEW d, NEW a \in Nat, NEW c \in Nat, a <= c,
         NEW W, IsFiniteSet(W), D \subseteq W,
         \A x \in a .. c : <<d, x>> \notin D /\ <<d, x>> \in W,
         NEW E, E = {x \in a .. (c - 1) : <<d, x>> \notin D}
  PROVE  Cardinality(D) + Cardinality(E) < Cardinality(W)
<1>2. IsFiniteSet(E) /\ Cardinality(E) \in Nat
  <2>1. IsFiniteSet(a .. (c - 1)) /\ E \subseteq a .. (c - 1)
    <3>1. a \in Int /\ c - 1 \in Int
      OBVIOUS
    <3> QED BY <3>1, FS_Interval
  <2> QED BY <2>1, FS_Subset, FS_CardinalityType
<1>3. c \notin E /\ c \in a .. c /\ \A x \in E : x \in a .. c
  OBVIOUS
<1>4. PICK G : G = E \cup {c}
  OBVIOUS
<1>5. IsFiniteSet(G) /\ Cardinality(G) = Cardinality(E) + 1
  BY <1>2, <1>3, <1>4, FS_AddElement
<1>6. PICK new : new = {<<d, x>> : x \in G}
  OBVIOUS
<1>7. [x \in G |-> <<d, x>>] \in Bijection(G, new)
  BY <1>6 DEF Bijection, Injection, Surjection, IsInjective
<1>8. IsFiniteSet(new) /\ Cardinality(new) = Cardinality(E) + 1
  BY <1>5, <1>7, FS_Bijection DEF ExistsBijection
<1>9. D \cap new = {} /\ new \subseteq W
  BY <1>3, <1>4, <1>6
<1>10. Cardinality(D) \in Nat /\ Cardinality(new) \in Nat /\ Cardinality(D \cap new) = 0
  BY <1>8, <1>9, FS_CardinalityType, FS_EmptySet
<1>11. Cardinality(D \cup new) = Cardinality(D) + Cardinality(new) - Cardinality(D \cap new)
  BY <1>8, FS_Union
<1>12. Cardinality(D \cup new) <= Cardinality(W) /\ Cardinality(W) \in Nat
  <2>1. D \cup new \in SUBSET W
    BY <1>9
  <2> QED BY <2>1, FS_Subset, FS_CardinalityType
<1> QED BY <1>2, <1>8, <1>10, <1>11, <1>12

\* The label l, whose key is mk, stands for a message to p that is not decrypted
\* and, if it is on its way, among the first in the queue.
Awaited(p, l, mk) ==
  /\ \E x \in sent : /\ x.id[1] = Peer(p) /\ x.dh = l[1] /\ x.n = l[2] /\ x.mk = mk
                     /\ x.id \notin accepted[p]
  /\ \A k \in DOMAIN net[p] : LabelOf(net[p][k]) = l => k < Window

\* The labels of lost messages and of the first in the queue to p.
Excused(p) ==
  {LabelOf(x) : x \in Lost}
    \cup {LabelOf(net[p][k]) : k \in {j \in DOMAIN net[p] : j < Window}}

\* An awaited message is lost or among the first in the queue.
LEMMA AwaitedExcused ==
  ASSUME NEW p \in Party, NEW l \in Label, NEW mk, Awaited(p, l, mk)
  PROVE  l \in Excused(p)
<1>1. PICK x \in sent : /\ x.id[1] = Peer(p) /\ x.dh = l[1] /\ x.n = l[2]
                        /\ x.id \notin accepted[p]
  BY DEF Awaited
<1>2. LabelOf(x) = l
  BY <1>1 DEF LabelOf, Label
<1>3. Peer(x.id[1]) = p
  BY <1>1, Parties
<1>4. CASE \A k \in DOMAIN net[p] : net[p][k] # x
  <2>1. x \in Lost
    BY <1>1, <1>3, <1>4 DEF Lost
  <2> QED BY <1>2, <2>1 DEF Excused
<1>5. CASE \E k \in DOMAIN net[p] : net[p][k] = x
  <2>1. PICK k \in DOMAIN net[p] : net[p][k] = x
    BY <1>5
  <2>2. k < Window
    BY <1>2, <2>1 DEF Awaited
  <2> QED BY <1>2, <2>1, <2>2 DEF Excused
<1> QED BY <1>4, <1>5

\* At most MaxLosses + Window - 1 labels are excused.
LEMMA ExcusedBound ==
  ASSUME NEW p \in Party, net[p] \in Seq(Message), LossInv, losses \in Nat,
         MaxLosses + Window - 1 <= MaxSkippedKeys
  PROVE  IsFiniteSet(Excused(p)) /\ Cardinality(Excused(p)) <= MaxSkippedKeys
<1>1. PICK K : K = {j \in DOMAIN net[p] : j < Window}
  OBVIOUS
<1>2. PICK S1 : S1 = {LabelOf(x) : x \in Lost}
  OBVIOUS
<1>3. PICK S2 : S2 = {LabelOf(net[p][k]) : k \in K}
  OBVIOUS
<1>4. Excused(p) = S1 \cup S2
  BY <1>1, <1>2, <1>3 DEF Excused
<1>5. IsFiniteSet(Lost) /\ Cardinality(Lost) \in Nat
  <2>1. Lost \in SUBSET sent /\ IsFiniteSet(sent)
    BY DEF Lost, LossInv
  <2> QED BY <2>1, FS_Subset, FS_CardinalityType
<1>6. IsFiniteSet(S1) /\ Cardinality(S1) <= Cardinality(Lost) /\ Cardinality(S1) \in Nat
  <2>1. [x \in Lost |-> LabelOf(x)] \in Surjection(Lost, S1)
    <3> HIDE DEF Lost, LabelOf
    <3> QED BY <1>2 DEF Surjection
  <2> QED BY <1>5, <2>1, FS_Surjection, FS_CardinalityType
<1>7. IsFiniteSet(K) /\ Cardinality(K) <= Window - 1 /\ Cardinality(K) \in Nat
  <2>1. Window \in Nat \ {0} /\ Window - 1 \in Int /\ 1 \in Int
    BY BoundAssumption
  <2>2. K \in SUBSET (1 .. (Window - 1))
    BY <1>1, <2>1
  <2>3. IsFiniteSet(1 .. (Window - 1)) /\ Cardinality(1 .. (Window - 1)) <= Window - 1
        /\ Cardinality(1 .. (Window - 1)) \in Nat
    <3>1. PICK w \in Int : w = Window - 1 /\ w >= 0
      BY <2>1
    <3>2. IsFiniteSet(1 .. w) /\ Cardinality(1 .. w) = IF 1 > w THEN 0 ELSE w - 1 + 1
      BY <2>1, <3>1, FS_Interval
    <3> QED BY <3>1, <3>2
  <2>4. IsFiniteSet(K) /\ Cardinality(K) <= Cardinality(1 .. (Window - 1)) /\ Cardinality(K) \in Nat
    BY <2>2, <2>3, FS_Subset, FS_CardinalityType
  <2> QED BY <2>1, <2>3, <2>4
<1>8. IsFiniteSet(S2) /\ Cardinality(S2) <= Cardinality(K) /\ Cardinality(S2) \in Nat
  <2>1. [k \in K |-> LabelOf(net[p][k])] \in Surjection(K, S2)
    <3> HIDE DEF LabelOf
    <3> QED BY <1>3 DEF Surjection
  <2> QED BY <1>7, <2>1, FS_Surjection, FS_CardinalityType
<1>9. /\ IsFiniteSet(S1 \cup S2)
      /\ Cardinality(S1 \cup S2) = Cardinality(S1) + Cardinality(S2) - Cardinality(S1 \cap S2)
      /\ Cardinality(S1 \cap S2) \in Nat
  <2>1. S1 \cap S2 \in SUBSET S1
    OBVIOUS
  <2> QED BY <1>6, <1>8, <2>1, FS_Union, FS_Subset, FS_CardinalityType
<1>10. Cardinality(Lost) <= losses /\ losses <= MaxLosses /\ MaxLosses \in Nat /\ Window \in Nat
  BY BoundAssumption DEF LossInv
<1>11. Cardinality(S1 \cup S2) \in Nat
  BY <1>9, FS_CardinalityType
<1>12. Cardinality(S1 \cup S2) <= MaxSkippedKeys
  BY <1>6, <1>7, <1>8, <1>9, <1>10, <1>5, <1>11, MaxSkippedAssumption
<1> QED BY <1>4, <1>9, <1>12

Ahead(z, m) == {<<z.dhr, c>> : c \in z.nr .. (m.n - 1)}

KeyOf(z, l) ==
  IF l \in DOMAIN z.skipped THEN z.skipped[l] ELSE [root |-> z.ckr.root, step |-> l[2]]

AllAwaited(p, z, m) ==
  \A l \in DOMAIN z.skipped \cup Ahead(z, m) : l \in Label /\ Awaited(p, l, KeyOf(z, l))

\* When all labels are awaited, every counter before m fits in the cache.
LEMMA AwaitedRoom ==
  ASSUME NEW p \in Party, net[p] \in Seq(Message), LossInv, losses \in Nat,
         MaxLosses + Window - 1 <= MaxSkippedKeys,
         NEW z, Receiving(z), NEW g, Counted(z, g), NEW m \in Message, AllAwaited(p, z, m)
  PROVE  Room(z, m.n)
<1>1. z.nr \in Nat /\ m.n \in Nat /\ IsFiniteSet(DOMAIN z.skipped) /\ z.dhr \in KeyPair
  BY DEF Receiving, IsSessionState, IsSkippedMap, Message
<1>2. SUFFICES ASSUME NEW c \in z.nr .. (m.n - 1) PROVE Fits(z, c)
  BY DEF Room
<1>3. c \in Nat /\ z.nr <= c
  BY <1>1
<1>4. IsFiniteSet(Excused(p)) /\ Cardinality(Excused(p)) <= MaxSkippedKeys
  BY ExcusedBound
<1>5. \A l \in DOMAIN z.skipped \cup Ahead(z, m) : l \in Excused(p)
  BY AwaitedExcused DEF AllAwaited
<1>6. ASSUME NEW x \in z.nr .. c
      PROVE  <<z.dhr, x>> \notin DOMAIN z.skipped /\ <<z.dhr, x>> \in Excused(p)
  <2>1. x \in z.nr .. (m.n - 1) /\ ~(x < z.nr)
    BY <1>1, <1>3
  <2>2. <<z.dhr, x>> \in Ahead(z, m)
    BY <2>1 DEF Ahead
  <2>3. <<z.dhr, x>> \notin DOMAIN z.skipped
    BY <2>1 DEF Counted
  <2> QED BY <1>5, <2>2, <2>3
<1>7. PICK W : W = Excused(p)
  OBVIOUS
<1>8. PICK D : D = DOMAIN z.skipped
  OBVIOUS
<1>9. D \subseteq W /\ IsFiniteSet(W) /\ IsFiniteSet(D)
  BY <1>1, <1>4, <1>5, <1>7, <1>8
<1>10. PICK E : E = {x \in z.nr .. (c - 1) : <<z.dhr, x>> \notin D}
  OBVIOUS
<1>11. Cardinality(D) + Cardinality(E) < Cardinality(W)
  <2>1. PICK dd : dd = z.dhr
    OBVIOUS
  <2>2. PICK nn \in Nat : nn = z.nr
    BY <1>1
  <2>3. nn <= c /\ \A x \in nn .. c : <<dd, x>> \notin D /\ <<dd, x>> \in W
    BY <1>3, <1>6, <1>7, <1>8, <2>1, <2>2
  <2>4. E = {x \in nn .. (c - 1) : <<dd, x>> \notin D}
    BY <1>10, <2>1, <2>2
  <2> QED BY <1>3, <1>9, <2>3, <2>4, LabelsCounted
<1>12. Cardinality(W) \in Nat /\ Cardinality(D) \in Nat /\ Cardinality(E) \in Nat
  <2>1. z.nr \in Int /\ c - 1 \in Int
    BY <1>1, <1>3
  <2>2. IsFiniteSet(z.nr .. (c - 1))
    BY <2>1, FS_Interval
  <2>3. E \in SUBSET (z.nr .. (c - 1))
    BY <1>10
  <2> QED BY <1>9, <2>2, <2>3, FS_Subset, FS_CardinalityType
<1> QED BY <1>4, <1>7, <1>8, <1>10, <1>11, <1>12, MaxSkippedAssumption DEF Fits

-----------------------------------------------------------------------------
(* A delivery finds its room *)

\* A deliverable message meets the setting of the lemmas above.
LEMMA DeliverSetting ==
  ASSUME IInv, DInv, ~CrossChain, NEW p \in Party, NEW i \in DOMAIN net[p],
         MayDeliver(net[p], i), NEW m, m = net[p][i]
  PROVE  /\ Setting(st[p], st[Peer(p)], Range(net[p]), Range(net[Peer(p)]), m, fresh)
         /\ m \in sent /\ m \in Message /\ m.id[1] = Peer(p)
         /\ \A k \in DOMAIN net[p] : net[p][k] \in sent /\ net[p][k] \in Message
         /\ i \in Nat /\ i <= Window
<1>1. /\ Peer(p) \in Party /\ fresh \in KeyPair /\ net \in [Party -> Seq(Message)]
      /\ \A r \in Party : Good(st[r], fresh) /\ Counted(st[r], fresh) /\ net[r] \in Seq(InFlight(r))
      /\ sent \subseteq Message
  BY Parties DEF IInv, TypeOK, NetworkInv, Good, SkippedKeysBounded, DInv, SyncInv
<1>2. \A r \in Party : \A k \in DOMAIN net[r] : net[r][k] \in InFlight(r)
  BY <1>1
<1>3. \A r \in Party : \A k \in DOMAIN net[r] :
        net[r][k] \in sent /\ net[r][k] \in Message /\ net[r][k].id[1] = Peer(r)
  BY <1>1, <1>2 DEF InFlight
<1>4. i \in Nat /\ i <= Window
  BY <1>1 DEF MayDeliver
<1>5. /\ Range(net[p]) \subseteq Message /\ Range(net[Peer(p)]) \subseteq Message
      /\ m \in Range(net[p])
  BY <1>1, <1>3 DEF Range
<1>6. m.dh < fresh
  BY <1>3 DEF IInv, MessageInv
<1>7. ASSUME m.dh = st[Peer(p)].dhs
      PROVE  m.n < st[Peer(p)].ns /\ \A x \in Range(net[p]) : x.dh = m.dh
  <2>1. m.n < st[Peer(p)].ns
    BY <1>3, <1>7 DEF DInv, ChainsComplete
  <2>2. ASSUME NEW k \in DOMAIN net[p] PROVE net[p][k].dh = m.dh
    <3>1. k \in Nat /\ k >= 1
      BY <1>1
    <3>2. CASE k <= i
      BY <1>4, <3>1, <3>2 DEF MayDeliver
    <3>3. CASE i < k
      <4>1. Outgoing(st[Peer(p)], net[p])
        BY <1>1, Parties DEF DInv, SyncInv
      <4> QED BY <1>7, <3>3, <4>1 DEF Outgoing
    <3> QED BY <1>4, <3>1, <3>2, <3>3
  <2> QED BY <2>1, <2>2 DEF Range
<1>8. \/ Sync(st[p], st[Peer(p)], Range(net[p]), Range(net[Peer(p)]))
      \/ Sync(st[Peer(p)], st[p], Range(net[Peer(p)]), Range(net[p]))
  <2>1. PICK q \in Party : Sync(st[q], st[Peer(q)], Range(net[q]), Range(net[Peer(q)]))
    BY DEF DInv, SyncInv, InSync
  <2>2. q = p \/ (q = Peer(p) /\ Peer(q) = p)
    BY Parties
  <2> QED BY <2>1, <2>2
<1>9. Setting(st[p], st[Peer(p)], Range(net[p]), Range(net[Peer(p)]), m, fresh)
  BY <1>1, <1>5, <1>6, <1>7, <1>8 DEF Setting
<1> QED BY <1>3, <1>4, <1>9

\* What the cache holds, and what reading m adds to it, is awaited.
LEMMA Waiting ==
  ASSUME IInv, DInv, ~CrossChain, NEW p \in Party, NEW i \in DOMAIN net[p],
         MayDeliver(net[p], i), NEW m, m = net[p][i],
         NEW z, z = followHeader(st[p], m, fresh)
  PROVE  AllAwaited(p, z, m)
<1>1. PICK s, t, q, A, B : /\ s = st[p] /\ q = Peer(p) /\ t = st[q]
                           /\ A = Range(net[p]) /\ B = Range(net[q])
  OBVIOUS
<1>2. /\ Setting(s, t, A, B, m, fresh)
      /\ m \in sent /\ m \in Message /\ m.id[1] = q
      /\ \A k \in DOMAIN net[p] : net[p][k] \in sent /\ net[p][k] \in Message
      /\ i \in Nat /\ i <= Window
  BY <1>1, DeliverSetting
<1>3. /\ q \in Party /\ Peer(q) = p /\ net[p] \in Seq(Message) /\ Window \in Nat
      /\ sent \subseteq Message
  BY <1>1, Parties, BoundAssumption DEF IInv, TypeOK
<1>4. /\ fresh \in KeyPair /\ Good(s, fresh) /\ Counted(s, fresh)
      /\ s.nr \in Nat /\ m.n \in Nat /\ m.dh \in KeyPair /\ m.mk \in ChainKey
  BY <1>2 DEF Setting, Good, IsSessionState, Message
<1>5. \A x \in sent : x.id[1] = q /\ x.id \in accepted[p] => Consumed(s, x.mk)
  BY <1>1, <1>3 DEF IInv, MessageInv
<1>6. ASSUME NEW k \in DOMAIN net[p], net[p][k].dh = m.dh, net[p][k].n < m.n PROVE k < Window
  <2>1. k \in Nat /\ net[p][k].n \in Nat
    <3>1. k \in Nat
      BY <1>3
    <3>2. net[p][k] \in Message
      BY <1>2
    <3> QED BY <3>1, <3>2 DEF Message
  <2>2. Outgoing(t, net[p])
    BY <1>1, <1>3 DEF DInv, SyncInv
  <2>3. ~(i < k) /\ i # k
    BY <1>4, <1>6, <2>1, <2>2 DEF Outgoing
  <2> QED BY <1>2, <1>3, <2>1, <2>3
<1>7. ASSUME NEW l \in DOMAIN s.skipped PROVE l \in Label /\ Awaited(p, l, s.skipped[l])
  <2>1. l \in Label
    BY <1>4 DEF Good, IsSessionState, IsSkippedMap
  <2>2. PICK x \in sent : x.id[1] = q /\ x.dh = l[1] /\ x.n = l[2] /\ x.mk = s.skipped[l]
    BY <1>1 DEF DInv, CacheAccounted, Sealed, Among
  <2>3. x.id \notin accepted[p]
    BY <1>5, <2>2 DEF Consumed
  <2>4. \A k \in DOMAIN net[p] : LabelOf(net[p][k]) = l => k < Window
    BY <1>1 DEF DInv, CacheAccounted
  <2> QED BY <1>1, <2>1, <2>2, <2>3, <2>4 DEF Awaited
<1>8. ASSUME NEW c \in 0 .. (m.n - 1), ~Consumed(s, [root |-> m.mk.root, step |-> c])
      PROVE  /\ <<m.dh, c>> \in Label
             /\ Awaited(p, <<m.dh, c>>, [root |-> m.mk.root, step |-> c])
  <2>1. PICK x \in sent : /\ x.id[1] = q /\ x.dh = m.dh /\ x.n = c
                          /\ x.mk = [root |-> m.mk.root, step |-> c]
    BY <1>2 DEF DInv, ChainsComplete, Sealed, Among
  <2>2. x.id \notin accepted[p]
    BY <1>5, <1>8, <2>1
  <2>3. ASSUME NEW k \in DOMAIN net[p], LabelOf(net[p][k]) = <<m.dh, c>> PROVE k < Window
    <3>1. net[p][k].dh = m.dh /\ net[p][k].n = c /\ c < m.n
      BY <1>4, <2>3 DEF LabelOf
    <3> QED BY <1>6, <3>1
  <2>4. <<m.dh, c>> \in Label
    BY <1>4 DEF Label
  <2> QED BY <1>1, <2>1, <2>2, <2>3, <2>4 DEF Awaited
<1>9. CASE OldChain(s, m)
  <2>1. z = s /\ s.ckr # Nil /\ m.dh = s.dhr /\ m.mk = [root |-> s.ckr.root, step |-> m.n]
    BY <1>1, <1>4, <1>9, StayOnChain DEF OldChain, OnChain
  <2>2. s.ckr \in ChainKey /\ s.ckr.step = s.nr /\ s.ckr.root \in RootKey /\ m.mk.root = s.ckr.root
    BY <1>4, <2>1, KeyForms DEF Counted, Good, IsSessionState
  <2>3. ASSUME NEW c \in s.nr .. (m.n - 1)
        PROVE  /\ <<s.dhr, c>> \in Label
               /\ Awaited(p, <<s.dhr, c>>, KeyOf(s, <<s.dhr, c>>))
    <3>1. c \in Nat /\ c \in 0 .. (m.n - 1) /\ ~(c < s.nr)
      BY <1>4
    <3>2. PICK mk : mk = [root |-> s.ckr.root, step |-> c]
      OBVIOUS
    <3>3. ~Consumed(s, mk)
      <4>1. mk.root = s.ckr.root /\ mk.step = c
        BY <3>2
      <4> QED BY <2>1, <2>2, <3>1, <4>1 DEF Consumed
    <3>4. <<s.dhr, c>> \notin DOMAIN s.skipped
      BY <1>4, <3>1 DEF Counted
    <3>5. KeyOf(s, <<s.dhr, c>>) = mk
      BY <3>2, <3>4 DEF KeyOf
    <3>6. <<m.dh, c>> \in Label /\ Awaited(p, <<m.dh, c>>, [root |-> m.mk.root, step |-> c])
      BY <1>8, <2>2, <3>1, <3>2, <3>3
    <3> QED BY <2>1, <2>2, <3>2, <3>5, <3>6
  <2> QED BY <1>7, <2>1, <2>3 DEF AllAwaited, KeyOf, Ahead
<1>10. CASE NewChain(s, t, A, B, m)
  <2>1. PICK g : Stepped(s, t, z, fresh, g)
    BY <1>1, <1>2, <1>10, TakeStep
  <2>2. /\ Counted(z, g) /\ z.dhr = t.dhs /\ z.nr = 0 /\ z.ckr.root = t.root
        /\ CachedTo(s, z, t.pn) /\ Depth(t.root) = Depth(s.root) + 1 /\ s.dhr # t.dhs
    BY <2>1 DEF Stepped
  <2>3. m.dh = t.dhs /\ m.mk = [root |-> t.root, step |-> m.n] /\ m.mk.root = t.root
        /\ \A x \in A : x.dh = t.dhs
    BY <1>2, <1>10 DEF NewChain, OnChain, Setting
  <2>4. Depth(s.root) \in Nat
    BY <1>4, RootKeyStep DEF Good, IsSessionState
  <2>5. ASSUME NEW c \in z.nr .. (m.n - 1)
        PROVE  /\ <<z.dhr, c>> \in Label
               /\ Awaited(p, <<z.dhr, c>>, KeyOf(z, <<z.dhr, c>>))
    <3>1. c \in Nat /\ c \in 0 .. (m.n - 1) /\ ~(c < z.nr)
      BY <1>4, <2>2
    <3>2. PICK mk : mk = [root |-> t.root, step |-> c]
      OBVIOUS
    <3>3. ~Consumed(s, mk)
      <4>1. mk.root = t.root
        BY <3>2
      <4> QED BY <2>2, <2>4, <4>1 DEF Consumed
    <3>4. <<z.dhr, c>> \notin DOMAIN z.skipped
      BY <2>2, <3>1 DEF Counted
    <3>5. KeyOf(z, <<z.dhr, c>>) = mk
      BY <2>2, <3>2, <3>4 DEF KeyOf
    <3>6. <<m.dh, c>> \in Label /\ Awaited(p, <<m.dh, c>>, [root |-> m.mk.root, step |-> c])
      BY <1>8, <2>3, <3>1, <3>2, <3>3
    <3> QED BY <2>2, <2>3, <3>2, <3>5, <3>6
  <2>6. ASSUME NEW l \in DOMAIN z.skipped PROVE l \in Label /\ Awaited(p, l, z.skipped[l])
    <3>1. CASE l \in DOMAIN s.skipped /\ z.skipped[l] = s.skipped[l]
      BY <1>7, <3>1
    <3>2. CASE /\ s.ckr # Nil /\ l \in Label /\ l[1] = s.dhr /\ l[2] \in s.nr .. (t.pn - 1)
               /\ z.skipped[l] = [root |-> s.ckr.root, step |-> l[2]]
      <4>1. l[2] \in 0 .. (t.pn - 1) /\ ~(l[2] < s.nr)
        BY <1>2, <1>4, <3>2 DEF Setting, Good, IsSessionState
      <4>2. Sealed(q, s.dhr, l[2], [root |-> s.ckr.root, step |-> l[2]])
        BY <1>1, <1>3, <2>2, <3>2, <4>1 DEF DInv, ChainsComplete
      <4>3. PICK x \in sent : x.id[1] = q /\ x.dh = l[1] /\ x.n = l[2] /\ x.mk = z.skipped[l]
        BY <3>2, <4>2 DEF Sealed, Among
      <4>4. s.ckr.step = s.nr /\ x.mk.root = s.ckr.root /\ x.mk.step = l[2]
        BY <1>4, <3>2, <4>3 DEF Counted
      <4>5. x.id \notin accepted[p]
        BY <1>5, <3>2, <4>1, <4>3, <4>4 DEF Consumed
      <4>6. ASSUME NEW k \in DOMAIN net[p], LabelOf(net[p][k]) = l PROVE FALSE
        <5>1. net[p][k] \in A /\ net[p][k].dh = s.dhr
          BY <1>1, <3>2, <4>6 DEF Range, LabelOf
        <5> QED BY <2>2, <2>3, <5>1
      <4> QED BY <1>1, <3>2, <4>3, <4>5, <4>6 DEF Awaited
    <3> QED BY <2>2, <3>1, <3>2 DEF CachedTo
  <2> QED BY <2>5, <2>6 DEF AllAwaited, KeyOf, Ahead
<1> QED BY <1>2, <1>9, <1>10, OldOrNew

\* Decrypt when the key is found.
LEMMA DecryptStep ==
  ASSUME NEW p \in Party, NEW m, NEW z, z = followHeader(st[p], m, fresh), z.ckr # Nil,
         Finds(z, m), Decrypt(p, m)
  PROVE  /\ fresh' = NextFresh(st[p], m, fresh)
         /\ st' = [st EXCEPT ![p] = After(z, m)]
         /\ Accept(p, m)
<1>1. fresh' = NextFresh(st[p], m, fresh)
  BY DEF Decrypt, NextFresh
<1>2. CASE Hit(z, m)
  <2>1. st' = [st EXCEPT ![p] = getSkippedKey(z, m)] /\ Accept(p, m)
    BY <1>2 DEF Decrypt, Hit, LabelOf
  <2> QED BY <1>1, <1>2, <2>1 DEF After
<1>3. CASE ~Hit(z, m)
  <2>1. ~HasSkippedKey(z, m) /\ nextMessageKey(z, m).ckr = m.mk
    BY <1>3 DEF Finds
  <2>2. st' = [st EXCEPT ![p] = consumeKey(nextMessageKey(z, m))] /\ Accept(p, m)
    BY <2>1 DEF Decrypt
  <2> QED BY <1>1, <1>3, <2>2 DEF After
<1> QED BY <1>2, <1>3

\* How v, the state after the delivery, goes on sending and receiving: on both
\* chains of s, on its sending chain only, or on new chains.
Proceeds(s, t, v, f, g) ==
  \/ /\ g = f /\ v.dhs = s.dhs /\ v.ns = s.ns /\ v.pn = s.pn /\ v.cks = s.cks
     /\ \/ v.dhr = s.dhr /\ s.ckr # Nil /\ v.ckr.root = s.ckr.root
        \/ v.dhr = t.dhs
  \/ /\ g = f + 1 /\ v.dhs = f /\ v.ns = 0 /\ v.pn = s.ns /\ v.dhr = t.dhs
     /\ s.cks # Nil /\ s.dhs = t.dhr /\ t.ckr # Nil /\ t.ckr.root = s.cks.root

\* The step that reads m at p and leaves it in state v with A1 still in flight.
Reads(p, m, v, A1) ==
  /\ st' = [st EXCEPT ![p] = v] /\ Accept(p, m)
  /\ Counted(v, fresh') /\ fresh' \in {fresh, fresh + 1}
  /\ Proceeds(st[p], st[Peer(p)], v, fresh, fresh')
  /\ \A l \in DOMAIN v.skipped : Awaited(p, l, v.skipped[l])
  /\ \/ Sync(v, st[Peer(p)], A1, Range(net[Peer(p)]))
     \/ Sync(st[Peer(p)], v, Range(net[Peer(p)]), A1)

\* A delivery reads its message and keeps the two sessions in step.
LEMMA DeliverReads ==
  ASSUME IInv, DInv, ~CrossChain, MaxLosses + Window - 1 <= MaxSkippedKeys,
         NEW p \in Party, NEW i \in DOMAIN net[p],
         MayDeliver(net[p], i), NEW m, m = net[p][i], Decrypt(p, m),
         NEW A1 \in SUBSET Range(net[p]), \A x \in A1 : x.dh = m.dh => x.n # m.n
  PROVE  \E v : Reads(p, m, v, A1)
<1>1. PICK s, t, q, A, B : /\ s = st[p] /\ q = Peer(p) /\ t = st[q]
                           /\ A = Range(net[p]) /\ B = Range(net[q])
  OBVIOUS
<1>2. PICK z : z = followHeader(st[p], m, fresh)
  OBVIOUS
<1>3. PICK v : v = After(z, m)
  OBVIOUS
<1>4. PICK g : g = NextFresh(s, m, fresh)
  OBVIOUS
<1>5. Setting(s, t, A, B, m, fresh) /\ m \in Message
  BY <1>1, DeliverSetting
<1>6. AllAwaited(p, z, m)
  BY <1>2, Waiting
<1>7. fresh \in KeyPair /\ net[p] \in Seq(Message) /\ losses \in Nat /\ LossInv
  BY DEF IInv, TypeOK, DInv
<1>8. ASSUME Receiving(z), Counted(z, g), Moved(z, v, m)
      PROVE  \A l \in DOMAIN v.skipped : Awaited(p, l, v.skipped[l])
  <2>1. SUFFICES ASSUME NEW l \in DOMAIN v.skipped PROVE Awaited(p, l, v.skipped[l])
    OBVIOUS
  <2>2. CASE l \in DOMAIN z.skipped /\ v.skipped[l] = z.skipped[l]
    BY <1>6, <2>2 DEF AllAwaited, KeyOf
  <2>3. CASE /\ l \in Label /\ l[1] = z.dhr /\ l[2] \in z.nr .. (m.n - 1)
             /\ v.skipped[l] = [root |-> z.ckr.root, step |-> l[2]]
    <3>1. l = <<z.dhr, l[2]>>
      BY <2>3 DEF Label
    <3>2. l \in Ahead(z, m)
      BY <2>3, <3>1 DEF Ahead
    <3>3. ~(l[2] < z.nr)
      BY <1>5, <1>8, <2>3 DEF Receiving, IsSessionState, Message
    <3>4. l \notin DOMAIN z.skipped
      BY <1>8, <2>3, <3>3 DEF Counted
    <3>5. KeyOf(z, l) = v.skipped[l]
      BY <2>3, <3>4 DEF KeyOf
    <3> QED BY <1>6, <3>2, <3>5 DEF AllAwaited
  <2> QED BY <1>8, <2>2, <2>3 DEF Moved, CachedFrom
<1>9. CASE OldChain(s, m)
  <2>1. /\ z = s /\ ~NeedsRatchet(s, m) /\ Receiving(s) /\ Counted(s, fresh) /\ g = fresh
    BY <1>1, <1>2, <1>4, <1>5, <1>9, StayOnChain DEF Setting, NextFresh
  <2>2. Room(z, m.n)
    BY <1>5, <1>6, <1>7, <2>1, AwaitedRoom
  <2>3. /\ Finds(s, m) /\ Moved(s, v, m) /\ Counted(v, fresh)
        /\ Sync(v, t, A1, B) \/ Sync(t, v, B, A1)
    BY <1>1, <1>3, <1>5, <1>9, <2>1, <2>2, ReceiveOld
  <2>4. s.ckr # Nil /\ s.ckr \in ChainKey
    BY <1>9, <2>1 DEF OldChain, Receiving
  <2>5. fresh' = g /\ st' = [st EXCEPT ![p] = v] /\ Accept(p, m)
    <3>1. z.ckr # Nil /\ Finds(z, m)
      BY <2>1, <2>3, <2>4
    <3>2. /\ fresh' = NextFresh(st[p], m, fresh) /\ st' = [st EXCEPT ![p] = After(z, m)]
          /\ Accept(p, m)
      BY <1>2, <3>1, DecryptStep
    <3> QED BY <1>1, <1>3, <1>4, <3>2
  <2>6. Proceeds(s, t, v, fresh, fresh')
    BY <2>1, <2>3, <2>4, <2>5 DEF Proceeds, Moved
  <2>7. \A l \in DOMAIN v.skipped : Awaited(p, l, v.skipped[l])
    BY <1>8, <2>1, <2>3
  <2>8. Reads(p, m, v, A1)
    BY <1>1, <2>1, <2>3, <2>5, <2>6, <2>7 DEF Reads
  <2> QED BY <2>8
<1>10. CASE NewChain(s, t, A, B, m)
  <2>1. Stepped(s, t, z, fresh, g)
    BY <1>1, <1>2, <1>4, <1>5, <1>10, TakeStep
  <2>2. Receiving(z) /\ Counted(z, g)
    BY <2>1 DEF Stepped
  <2>3. Room(z, m.n)
    BY <1>5, <1>6, <1>7, <2>2, AwaitedRoom
  <2>4. /\ Finds(z, m) /\ Moved(z, v, m) /\ Counted(v, g)
        /\ Sync(v, t, A1, B) \/ Sync(t, v, B, A1)
    BY <1>1, <1>2, <1>3, <1>4, <1>5, <1>10, <2>3, ReceiveNew
  <2>5. z.ckr # Nil
    BY <2>2, NilAssumption DEF Receiving
  <2>6. fresh' = g /\ st' = [st EXCEPT ![p] = v] /\ Accept(p, m)
    BY <1>1, <1>2, <1>3, <1>4, <2>4, <2>5, DecryptStep
  <2>7. Proceeds(s, t, v, fresh, fresh') /\ fresh' \in {fresh, fresh + 1}
    <3>1. /\ v.dhs = z.dhs /\ v.ns = z.ns /\ v.pn = z.pn /\ v.cks = z.cks /\ v.dhr = t.dhs
      BY <2>1, <2>4 DEF Moved, Stepped
    <3>2. CASE s.dhr = Nil
      BY <2>1, <2>6, <3>1, <3>2 DEF Stepped, Proceeds
    <3>3. CASE s.dhr # Nil
      <4>1. /\ s.cks = [root |-> s.root, step |-> s.ns] /\ t.dhr = s.dhs
            /\ t.ckr = [root |-> s.root, step |-> t.nr]
            /\ s.root \in RootKey /\ s.ns \in Nat /\ t.nr \in Nat
        BY <1>5, <1>10, <3>3 DEF NewChain, Leads, Setting, Good, IsSessionState
      <4>2. s.cks # Nil /\ t.ckr # Nil /\ t.ckr.root = s.cks.root
        BY <4>1, KeyForms
      <4> QED BY <2>1, <2>6, <3>1, <3>3, <4>1, <4>2 DEF Stepped, Proceeds
    <3> QED BY <3>2, <3>3
  <2>8. \A l \in DOMAIN v.skipped : Awaited(p, l, v.skipped[l])
    BY <1>8, <2>2, <2>4
  <2>9. Reads(p, m, v, A1)
    BY <1>1, <2>4, <2>6, <2>7, <2>8 DEF Reads
  <2> QED BY <2>9
<1> QED BY <1>5, <1>9, <1>10, OldOrNew

-----------------------------------------------------------------------------
(* The invariant is kept *)

\* A queue stays in order when an entry leaves it.
LEMMA OutgoingShrinks ==
  ASSUME NEW S, NEW b \in Seq(S), NEW i \in DOMAIN b, NEW s, Outgoing(s, b)
  PROVE  Outgoing(s, RemoveAt(b, i))
<1>1. PICK c : c = RemoveAt(b, i)
  OBVIOUS
<1>2. /\ c \in Seq(S)
      /\ \A j \in DOMAIN c : Before(i, j) \in DOMAIN b /\ c[j] = b[Before(i, j)]
  BY <1>1, RemoveAtEntries
<1>3. ASSUME NEW j \in DOMAIN c, NEW k \in DOMAIN c, j < k PROVE Before(i, j) < Before(i, k)
  <2>1. j \in Nat /\ k \in Nat /\ i \in Nat
    BY <1>2
  <2> QED BY <1>3, <2>1 DEF Before
<1>4. \A j, k \in DOMAIN c : j < k /\ c[j].dh = s.dhs => c[k].dh = s.dhs
  BY <1>2, <1>3 DEF Outgoing
<1>5. \A j, k \in DOMAIN c : j < k /\ c[j].dh = c[k].dh => c[j].n < c[k].n
  BY <1>2, <1>3 DEF Outgoing
<1> QED BY <1>1, <1>4, <1>5 DEF Outgoing

\* Labels stay older than the next key pair.
LEMMA CountedLater ==
  ASSUME NEW s, NEW f \in KeyPair, IsSessionState(s), Counted(s, f), NEW g \in {f, f + 1}
  PROVE  Counted(s, g)
<1>1. \A l \in DOMAIN s.skipped : l[1] \in Nat
  BY DEF IsSessionState, IsSkippedMap, Label, KeyPair
<1> QED BY <1>1 DEF Counted, KeyPair

\* Messages leave the network one at a time.
LEMMA LostBounded ==
  ASSUME LossInv, IsFiniteSet(sent'), losses' \in Nat, losses \in Nat, losses' <= MaxLosses,
         NEW x, NEW n \in {0, 1}, losses' = losses + n,
         Lost' \subseteq Lost \cup (IF n = 0 THEN {} ELSE {x})
  PROVE  LossInv'
<1>1. IsFiniteSet(Lost) /\ Cardinality(Lost) \in Nat
  <2>1. Lost \in SUBSET sent /\ IsFiniteSet(sent)
    BY DEF Lost, LossInv
  <2> QED BY <2>1, FS_Subset, FS_CardinalityType
<1>2. PICK L1 : L1 = Lost \cup (IF n = 0 THEN {} ELSE {x})
  OBVIOUS
<1>3. IsFiniteSet(L1) /\ Cardinality(L1) <= Cardinality(Lost) + n /\ Cardinality(L1) \in Nat
  <2>1. CASE n = 0
    <3>1. L1 = Lost
      BY <1>2, <2>1
    <3> QED BY <1>1, <2>1, <3>1
  <2>2. CASE n = 1
    <3>1. L1 = Lost \cup {x}
      BY <1>2, <2>2
    <3>2. IsFiniteSet(L1) /\ Cardinality(L1) = IF x \in Lost THEN Cardinality(Lost) ELSE Cardinality(Lost) + 1
      BY <1>1, <3>1, FS_AddElement
    <3> QED BY <1>1, <2>2, <3>2
  <2> QED BY <2>1, <2>2
<1>4. Cardinality(Lost') <= Cardinality(L1) /\ Cardinality(Lost') \in Nat
  <2>1. Lost' \in SUBSET L1
    BY <1>2
  <2> QED BY <1>3, <2>1, FS_Subset, FS_CardinalityType
<1>5. Cardinality(Lost) <= losses
  BY DEF LossInv
<1>6. Cardinality(Lost') <= losses'
  BY <1>1, <1>3, <1>4, <1>5
<1> QED BY <1>6 DEF LossInv

\* Deliver keeps the invariant.
LEMMA DeliverKeeps ==
  ASSUME IInv, DInv, ~CrossChain, MaxLosses + Window - 1 <= MaxSkippedKeys,
         NEW p \in Party, Deliver(p)
  PROVE  DInv'
<1>1. PICK i \in DOMAIN net[p] :
        /\ MayDeliver(net[p], i) /\ Decrypt(p, net[p][i])
        /\ net' = [net EXCEPT ![p] = RemoveAt(@, i)]
        /\ UNCHANGED <<nsent, dups, losses, sent>>
  BY DEF Deliver
<1>2. PICK q : q = Peer(p)
  OBVIOUS
<1>3. PICK m : m = net[p][i]
  OBVIOUS
<1>4. PICK b : b = RemoveAt(net[p], i)
  OBVIOUS
<1>5. /\ q \in Party /\ q # p /\ Peer(q) = p /\ \A r \in Party : r = p \/ r = q
      /\ net \in [Party -> Seq(Message)] /\ DOMAIN st = Party /\ fresh \in KeyPair
      /\ accepted \in [Party -> SUBSET (Party \X Nat)] /\ losses \in Nat
      /\ sent \subseteq Message
  BY <1>2, Parties DEF IInv, TypeOK
<1>6. /\ net'[p] = b /\ net'[q] = net[q]
  BY <1>1, <1>4, <1>5
<1>7. /\ b \in Seq(Message)
      /\ \A j \in DOMAIN b :
           Before(i, j) \in DOMAIN net[p] /\ Before(i, j) # i /\ b[j] = net[p][Before(i, j)]
      /\ \A k \in DOMAIN net[p] : k # i => \E j \in DOMAIN b : b[j] = net[p][k]
  BY <1>4, <1>5, RemoveAtEntries
<1>8. /\ m \in sent /\ m \in Message /\ m.id[1] = q
      /\ \A k \in DOMAIN net[p] : net[p][k] \in sent /\ net[p][k] \in Message
      /\ i \in Nat /\ i <= Window
  BY <1>1, <1>2, <1>3, DeliverSetting
<1>9. Range(b) \in SUBSET Range(net[p])
  BY <1>7 DEF Range
<1>10. \A x \in Range(b) : x.dh = m.dh => x.n # m.n
  <2>1. SUFFICES ASSUME NEW j \in DOMAIN b, b[j].dh = m.dh PROVE b[j].n # m.n
    BY DEF Range
  <2>2. PICK k \in DOMAIN net[p] : k = Before(i, j) /\ k # i /\ b[j] = net[p][k]
    BY <1>7
  <2>3. k \in Nat /\ net[p][k].n \in Nat /\ m.n \in Nat
    <3>1. k \in Nat
      BY <1>5
    <3>2. net[p][k] \in Message
      BY <1>8
    <3> QED BY <1>8, <3>1, <3>2 DEF Message
  <2>4. Outgoing(st[q], net[p])
    BY <1>5 DEF DInv, SyncInv
  <2>5. k < i \/ i < k
    BY <1>8, <2>2, <2>3
  <2>6. net[p][k].n < m.n \/ m.n < net[p][k].n
    BY <1>3, <2>1, <2>2, <2>4, <2>5 DEF Outgoing
  <2> QED BY <2>2, <2>3, <2>6
<1>11. PICK v : Reads(p, m, v, Range(b))
  BY <1>1, <1>3, <1>9, <1>10, DeliverReads
<1>12. /\ st'[p] = v /\ st'[q] = st[q] /\ Accept(p, m)
       /\ Counted(v, fresh') /\ fresh' \in {fresh, fresh + 1}
       /\ Proceeds(st[p], st[q], v, fresh, fresh')
       /\ \A l \in DOMAIN v.skipped : Awaited(p, l, v.skipped[l])
       /\ \/ Sync(v, st[q], Range(b), Range(net[q]))
          \/ Sync(st[q], v, Range(net[q]), Range(b))
  BY <1>2, <1>5, <1>11 DEF Reads
<1>13. \A r \in Party : \A k \in DOMAIN net[r] :
         net[r][k] \in sent /\ net[r][k].id[1] = Peer(r) /\ net[r][k].dh \in Nat
         /\ net[r][k].dh < fresh
  <2>1. \A r \in Party : \A k \in DOMAIN net[r] : net[r][k] \in InFlight(r)
    BY DEF IInv, NetworkInv
  <2>2. \A x \in sent : x.dh \in Nat /\ x.dh < fresh
    BY <1>5 DEF IInv, MessageInv, Message, KeyPair
  <2> QED BY <2>1, <2>2 DEF InFlight
<1>14. InSync'
  <2>1. CASE Sync(v, st[q], Range(b), Range(net[q]))
    <3>1. Sync(st'[p], st'[Peer(p)], Range(net'[p]), Range(net'[Peer(p)]))
      BY <1>2, <1>6, <1>12, <2>1
    <3> QED BY <3>1 DEF InSync
  <2>2. CASE Sync(st[q], v, Range(net[q]), Range(b))
    <3>1. Sync(st'[q], st'[Peer(q)], Range(net'[q]), Range(net'[Peer(q)]))
      BY <1>5, <1>6, <1>12, <2>2
    <3> QED BY <1>5, <3>1 DEF InSync
  <2> QED BY <1>12, <2>1, <2>2
<1>15. Counted(st'[p], fresh') /\ Counted(st'[q], fresh')
  <2>1. IsSessionState(st[q]) /\ Counted(st[q], fresh)
    BY <1>5 DEF IInv, TypeOK, DInv, SyncInv
  <2> QED BY <1>5, <1>12, <2>1, CountedLater
<1>16. Outgoing(st'[q], net'[p])
  <2>1. Outgoing(st[q], net[p])
    BY <1>5 DEF DInv, SyncInv
  <2> QED BY <1>4, <1>5, <1>6, <1>12, <2>1, OutgoingShrinks
<1>17. Outgoing(st'[p], net'[q])
  <2>1. Outgoing(st[p], net[q])
    BY <1>2 DEF DInv, SyncInv
  <2>2. CASE v.dhs = st[p].dhs
    BY <1>6, <1>12, <2>1, <2>2 DEF Outgoing
  <2>3. CASE v.dhs = fresh
    <3>1. \A k \in DOMAIN net[q] : net[q][k].dh # v.dhs
      BY <1>5, <1>13, <2>3 DEF KeyPair
    <3> QED BY <1>6, <1>12, <2>1, <3>1 DEF Outgoing
  <2> QED BY <1>12, <2>2, <2>3 DEF Proceeds
<1>18. SyncInv'
  BY <1>2, <1>5, <1>14, <1>15, <1>16, <1>17 DEF SyncInv
<1>19. ChainsComplete'
  <2>1. sent' = sent /\ \A r, d, n, mk : Sealed(r, d, n, mk)' <=> Sealed(r, d, n, mk)
    BY <1>1 DEF Sealed
  <2>2. \A x \in sent : x.id[1] \in Party /\ x.dh \in Nat /\ x.dh < fresh
    BY <1>5 DEF IInv, MessageInv, Message, KeyPair
  <2>3. ASSUME NEW x \in sent, x.dh = st'[x.id[1]].dhs PROVE x.n < st'[x.id[1]].ns
    <3>1. CASE x.id[1] = q
      BY <1>12, <2>3, <3>1 DEF DInv, ChainsComplete
    <3>2. CASE x.id[1] = p /\ v.dhs = st[p].dhs /\ v.ns = st[p].ns
      BY <1>12, <2>3, <3>2 DEF DInv, ChainsComplete
    <3>3. CASE x.id[1] = p /\ v.dhs = fresh
      BY <1>5, <1>12, <2>2, <2>3, <3>3 DEF KeyPair
    <3> QED BY <1>5, <1>12, <2>2, <3>1, <3>2, <3>3 DEF Proceeds
  <2>4. ASSUME NEW x \in sent, NEW n \in 0 .. (x.n - 1)
        PROVE  Sealed(x.id[1], x.dh, n, [root |-> x.mk.root, step |-> n])
    BY DEF DInv, ChainsComplete
  <2>5. ASSUME NEW r \in Party, st'[r].cks # Nil, NEW n \in 0 .. (st'[r].ns - 1)
        PROVE  Sealed(r, st'[r].dhs, n, [root |-> st'[r].cks.root, step |-> n])
    <3>1. CASE r = q
      BY <1>12, <2>5, <3>1 DEF DInv, ChainsComplete
    <3>2. CASE r = p /\ v.dhs = st[p].dhs /\ v.ns = st[p].ns /\ v.cks = st[p].cks
      BY <1>12, <2>5, <3>2 DEF DInv, ChainsComplete
    <3>3. CASE r = p /\ v.ns = 0
      BY <1>12, <2>5, <3>3
    <3> QED BY <1>5, <1>12, <3>1, <3>2, <3>3 DEF Proceeds
  <2>6. ASSUME st'[p].dhs # st'[q].dhr, st'[q].ckr # Nil, NEW n \in 0 .. (st'[p].pn - 1)
        PROVE  Sealed(p, st'[q].dhr, n, [root |-> st'[q].ckr.root, step |-> n])
    <3>1. CASE v.dhs = st[p].dhs /\ v.pn = st[p].pn
      BY <1>2, <1>12, <2>6, <3>1 DEF DInv, ChainsComplete
    <3>2. CASE /\ v.pn = st[p].ns
               /\ st[p].cks # Nil /\ st[p].dhs = st[q].dhr /\ st[q].ckr # Nil
               /\ st[q].ckr.root = st[p].cks.root
      <4>1. Sealed(p, st[p].dhs, n, [root |-> st[p].cks.root, step |-> n])
        BY <1>12, <2>6, <3>2 DEF DInv, ChainsComplete
      <4> QED BY <1>12, <3>2, <4>1
    <3> QED BY <1>12, <3>1, <3>2 DEF Proceeds
  <2>7. ASSUME st'[q].dhs # st'[p].dhr, st'[p].ckr # Nil, NEW n \in 0 .. (st'[q].pn - 1)
        PROVE  Sealed(q, st'[p].dhr, n, [root |-> st'[p].ckr.root, step |-> n])
    <3>1. v.dhr = st[p].dhr /\ st[p].ckr # Nil /\ v.ckr.root = st[p].ckr.root
      BY <1>12, <2>7 DEF Proceeds
    <3> QED BY <1>5, <1>12, <2>7, <3>1 DEF DInv, ChainsComplete
  <2> QED BY <1>2, <1>5, <2>1, <2>3, <2>4, <2>5, <2>6, <2>7 DEF ChainsComplete
<1>20. CacheAccounted'
  <2>2. \A l \in DOMAIN v.skipped : Sealed(q, l[1], l[2], v.skipped[l])
    BY <1>2, <1>12 DEF Awaited, Sealed, Among
  <2>3. ASSUME NEW j \in DOMAIN b, LabelOf(b[j]) \in DOMAIN v.skipped PROVE j < Window
    <3>1. Before(i, j) < Window
      BY <1>7, <1>12, <2>3 DEF Awaited
    <3>2. j \in Nat /\ j <= Before(i, j) /\ Before(i, j) \in Nat
      BY <1>7, <1>8 DEF Before
    <3> QED BY <3>1, <3>2, BoundAssumption
  <2>4. /\ \A l \in DOMAIN st[q].skipped : Sealed(p, l[1], l[2], st[q].skipped[l])
        /\ \A j \in DOMAIN net[q] : LabelOf(net[q][j]) \in DOMAIN st[q].skipped => j < Window
    BY <1>5 DEF DInv, CacheAccounted
  <2>5. /\ \A l \in DOMAIN st'[p].skipped : Sealed(Peer(p), l[1], l[2], st'[p].skipped[l])
        /\ \A j \in DOMAIN net'[p] : LabelOf(net'[p][j]) \in DOMAIN st'[p].skipped => j < Window
    BY <1>2, <1>6, <1>12, <2>2, <2>3
  <2>6. /\ \A l \in DOMAIN st'[q].skipped : Sealed(Peer(q), l[1], l[2], st'[q].skipped[l])
        /\ \A j \in DOMAIN net'[q] : LabelOf(net'[q][j]) \in DOMAIN st'[q].skipped => j < Window
    BY <1>5, <1>6, <1>12, <2>4
  <2> HIDE DEF LabelOf
  <2>7. sent' = sent
    BY <1>1
  <2>8. ASSUME NEW r \in Party
        PROVE  /\ \A l \in DOMAIN st'[r].skipped : Sealed(Peer(r), l[1], l[2], st'[r].skipped[l])
               /\ \A j \in DOMAIN net'[r] : LabelOf(net'[r][j]) \in DOMAIN st'[r].skipped => j < Window
    BY <1>5, <2>5, <2>6
  <2> QED BY <2>7, <2>8 DEF CacheAccounted, Sealed, LabelOf
<1>21. LossInv'
  <2>1. Lost' \subseteq Lost
    <3>1. SUFFICES ASSUME NEW x \in sent, x.id \notin accepted'[Peer(x.id[1])],
                          \A k \in DOMAIN net'[Peer(x.id[1])] : net'[Peer(x.id[1])][k] # x
                   PROVE  /\ x.id \notin accepted[Peer(x.id[1])]
                          /\ \A k \in DOMAIN net[Peer(x.id[1])] : net[Peer(x.id[1])][k] # x
      BY <1>1 DEF Lost
    <3>2. x.id[1] \in Party
      BY <1>5 DEF Message
    <3>3. CASE x.id[1] = p
      <4>1. accepted'[q] = accepted[q]
        BY <1>5, <1>12 DEF Accept
      <4> QED BY <1>2, <1>6, <3>1, <3>3, <4>1
    <3>4. CASE x.id[1] = q
      <4>1. accepted'[p] = accepted[p] \cup {m.id} /\ Peer(x.id[1]) = p
        BY <1>5, <1>12, <3>4 DEF Accept
      <4>2. x.id \notin accepted[p] /\ x # m
        BY <3>1, <4>1
      <4>3. \A k \in DOMAIN b : b[k] # x
        BY <1>6, <3>1, <4>1
      <4> QED BY <1>3, <1>7, <4>1, <4>2, <4>3
    <3> QED BY <1>5, <3>2, <3>3, <3>4
  <2>2. sent' = sent /\ losses' = losses + 0 /\ losses' \in Nat /\ IsFiniteSet(sent)
        /\ losses <= MaxLosses /\ losses' = losses
    BY <1>1, <1>5 DEF DInv, LossInv
  <2>3. Lost' \subseteq Lost \cup (IF 0 = 0 THEN {} ELSE {m})
    BY <2>1
  <2> QED BY <1>5, <2>2, <2>3, LostBounded DEF DInv
<1>22. NoDecryptFailure'
  BY <1>12 DEF DInv, NoDecryptFailure, Accept
<1> QED BY <1>18, <1>19, <1>20, <1>21, <1>22 DEF DInv

-----------------------------------------------------------------------------
(* Sending *)

\* The entries of a queue that grows.
LEMMA AppendEntries ==
  ASSUME NEW S, NEW b \in Seq(S), NEW m \in S
  PROVE  /\ Append(b, m) \in Seq(S) /\ DOMAIN Append(b, m) = 1 .. (Len(b) + 1)
         /\ DOMAIN b = 1 .. Len(b) /\ Len(b) \in Nat
         /\ \A j \in DOMAIN b : Append(b, m)[j] = b[j]
         /\ Append(b, m)[Len(b) + 1] = m
         /\ Range(Append(b, m)) = Range(b) \cup {m}
<1>1. /\ Append(b, m) \in Seq(S) /\ DOMAIN Append(b, m) = 1 .. (Len(b) + 1)
      /\ DOMAIN b = 1 .. Len(b) /\ Len(b) \in Nat
      /\ \A j \in DOMAIN b : Append(b, m)[j] = b[j]
      /\ Append(b, m)[Len(b) + 1] = m
  OBVIOUS
<1>2. PICK a : a = Append(b, m)
  OBVIOUS
<1>3. \A j \in 1 .. (Len(b) + 1) : j \in 1 .. Len(b) \/ j = Len(b) + 1
  BY <1>1
<1>4. Range(a) = Range(b) \cup {m}
  <2>1. ASSUME NEW x \in Range(a) PROVE x \in Range(b) \cup {m}
    BY <1>1, <1>2, <1>3, <2>1 DEF Range
  <2>2. ASSUME NEW x \in Range(b) PROVE x \in Range(a)
    <3>1. PICK j \in 1 .. Len(b) : x = b[j]
      BY <1>1, <2>2 DEF Range
    <3>2. j \in 1 .. (Len(b) + 1) /\ a[j] = x
      BY <1>1, <1>2, <3>1
    <3> QED BY <1>1, <1>2, <3>2 DEF Range
  <2>3. m \in Range(a)
    <3>1. Len(b) + 1 \in 1 .. (Len(b) + 1)
      BY <1>1
    <3> QED BY <1>1, <1>2, <3>1 DEF Range
  <2> QED BY <2>1, <2>2, <2>3
<1> QED BY <1>1, <1>2, <1>4

\* m is the message sealed by Encrypt in state s.
SealedIn(s, m) == m.dh = s.dhs /\ m.pn = s.pn /\ m.n = s.ns /\ m.mk = s.cks

\* The fields of sealState.
LEMMA SealFrame ==
  ASSUME NEW s, NEW f, Good(s, f), s.cks \in ChainKey, NEW v, v = sealState(s)
  PROVE  /\ v.dhs = s.dhs /\ v.dhr = s.dhr /\ v.root = s.root /\ v.pn = s.pn
         /\ v.ckr = s.ckr /\ v.nr = s.nr /\ v.skipped = s.skipped
         /\ v.ns = s.ns + 1 /\ v.cks = [root |-> s.cks.root, step |-> s.cks.step + 1]
<1>1. v = [s EXCEPT !.cks = KDF_CK(@), !.ns = @ + 1]
  BY DEF sealState
<1>2. KDF_CK(s.cks) = [root |-> s.cks.root, step |-> s.cks.step + 1]
  BY KeyForms
<1> QED BY <1>1, <1>2 DEF Good, IsSessionState

\* Encrypt on an existing sending chain.
LEMMA SendOn ==
  ASSUME NEW s, NEW t, NEW A, NEW B, NEW f \in KeyPair, Good(s, f), Good(t, f),
         Sync(s, t, A, B) \/ Sync(t, s, B, A), s.cks # Nil,
         NEW v, v = sealState(s), NEW m \in Message, SealedIn(s, m)
  PROVE  /\ s.cks = [root |-> s.root, step |-> s.ns]
         /\ Sync(v, t, A, B \cup {m}) \/ Sync(t, v, B \cup {m}, A)
<1>1. /\ s.cks \in ChainKey /\ s.ns \in Nat /\ s.root \in RootKey /\ t.nr \in Nat
  BY DEF Good, IsSessionState
<1>2. s.cks = [root |-> s.root, step |-> s.ns]
  BY DEF Sync, Leads, Even
<1>3. s.cks.root = s.root /\ s.cks.step = s.ns
  BY <1>2
<1>4. /\ v.dhs = s.dhs /\ v.dhr = s.dhr /\ v.root = s.root /\ v.pn = s.pn
      /\ v.ckr = s.ckr /\ v.nr = s.nr /\ v.skipped = s.skipped
      /\ v.ns = s.ns + 1 /\ v.cks = [root |-> s.root, step |-> s.ns + 1]
  BY <1>1, <1>3, SealFrame
<1>5. OnChain(m, s.dhs, s.root) /\ m.pn = s.pn /\ m.n = s.ns
  BY <1>2 DEF OnChain, SealedIn
<1>6. v.cks # Nil
  <2>1. s.ns + 1 \in Nat
    BY <1>1
  <2> QED BY <1>1, <1>4, <2>1, KeyForms
<1>7. t.nr <= s.ns => Opens(t, m) /\ t.nr <= v.ns
  BY <1>1, <1>4, <1>5 DEF Opens
<1>8. \A x \in A : Opens(s, x) => Opens(v, x)
  BY <1>4 DEF Opens
<1>9. CASE Leads(s, t, A, B)
  <2>1. /\ v.dhr = t.dhs /\ t.dhr # v.dhs
        /\ v.root = KDF_RK(t.root, DH(v.dhs, t.dhs))
        /\ v.cks = [root |-> v.root, step |-> v.ns]
        /\ \A l \in DOMAIN t.skipped : l[1] # v.dhs
    BY <1>4, <1>9 DEF Leads
  <2>2. \/ t.cks = Nil /\ t.dhr = Nil /\ v.ckr = Nil /\ A = {}
        \/ /\ t.cks = [root |-> t.root, step |-> t.ns] /\ t.dhr # Nil
           /\ v.ckr = [root |-> t.root, step |-> v.nr] /\ v.nr <= t.ns
    BY <1>4, <1>9 DEF Leads
  <2>3. \A x \in A : OnChain(x, t.dhs, t.root) /\ Opens(v, x)
    BY <1>8, <1>9 DEF Leads
  <2>4. \A x \in B \cup {m} :
          \/ OnChain(x, v.dhs, v.root) /\ x.pn = v.pn
          \/ t.ckr # Nil /\ OnChain(x, t.dhr, t.ckr.root) /\ Opens(t, x)
    BY <1>4, <1>5, <1>9 DEF Leads
  <2>5. Leads(v, t, A, B \cup {m})
    BY <2>1, <2>2, <2>3, <2>4 DEF Leads
  <2> QED BY <1>2, <2>5 DEF Sync
<1>10. CASE Leads(t, s, B, A)
  <2>1. /\ t.dhr = v.dhs /\ v.dhr # t.dhs
        /\ t.root = KDF_RK(v.root, DH(t.dhs, v.dhs))
        /\ t.cks = [root |-> t.root, step |-> t.ns]
        /\ \A l \in DOMAIN v.skipped : l[1] # t.dhs
    BY <1>4, <1>10 DEF Leads
  <2>2. /\ s.cks = [root |-> s.root, step |-> s.ns] /\ s.dhr # Nil
        /\ t.ckr = [root |-> s.root, step |-> t.nr] /\ t.nr <= s.ns
    BY <1>10 DEF Leads
  <2>3. /\ v.cks = [root |-> v.root, step |-> v.ns] /\ v.dhr # Nil
        /\ t.ckr = [root |-> v.root, step |-> t.nr] /\ t.nr <= v.ns
    BY <1>4, <1>7, <2>2
  <2>4. \A x \in B \cup {m} : OnChain(x, v.dhs, v.root) /\ Opens(t, x)
    BY <1>4, <1>5, <1>7, <1>10, <2>2 DEF Leads
  <2>5. \A x \in A :
          \/ OnChain(x, t.dhs, t.root) /\ x.pn = t.pn
          \/ v.ckr # Nil /\ OnChain(x, v.dhr, v.ckr.root) /\ Opens(v, x)
    BY <1>4, <1>8, <1>10 DEF Leads
  <2>6. Leads(t, v, B \cup {m}, A)
    BY <2>1, <2>3, <2>4, <2>5 DEF Leads
  <2> QED BY <1>2, <2>6 DEF Sync
<1>11. CASE Even(s, t, A, B)
  <2>1. t.nr <= s.ns /\ Opens(t, m) /\ t.nr <= v.ns
    BY <1>7, <1>11 DEF Even
  <2>2. Even(v, t, A, B \cup {m})
    BY <1>4, <1>5, <1>11, <2>1 DEF Even
  <2> QED BY <1>2, <2>2 DEF Sync
<1>12. CASE Even(t, s, B, A)
  BY <1>12 DEF Even
<1> QED BY <1>9, <1>10, <1>11, <1>12 DEF Sync

\* The responder's first answer: a DH ratchet step without a receipt.
Answered(s, t, A, B, f, y, v, m) ==
  /\ Sync(v, t, A, B \cup {m}) /\ t.ckr = Nil
  /\ y.ns = 0 /\ y.dhs = f /\ y.cks = [root |-> y.root, step |-> 0] /\ y.root \in RootKey
  /\ y.dhr = s.dhr /\ y.ckr = s.ckr /\ y.nr = s.nr /\ y.skipped = s.skipped
  /\ Good(y, f + 1)

(* A first message after a DH step is sealed at the head of the new chain, on
   which the receiver is not yet. *)
LEMMA SendFirst ==
  ASSUME NEW s, NEW t, NEW A, NEW B, NEW f \in KeyPair, Good(s, f), Good(t, f), Counted(t, f),
         Sync(s, t, A, B) \/ Sync(t, s, B, A), s.cks = Nil, CanEncrypt(s),
         NEW y, y = dhRatchetSend(s, f),
         NEW v, v = sealState(y), NEW m \in Message, SealedIn(y, m)
  PROVE  Answered(s, t, A, B, f, y, v, m)
<1>1. /\ s.ns \in Nat /\ s.root \in RootKey /\ t.nr \in Nat /\ t.ns \in Nat /\ s.dhr # Nil
      /\ s.dhr \in KeyPair /\ t.root \in RootKey
  BY DEF Good, IsSessionState, CanEncrypt
<1>2. \A rk \in RootKey : \A n \in Nat : [root |-> rk, step |-> n] # Nil
  BY KeyForms
<1>3. Even(t, s, B, A)
  BY <1>1, <1>2 DEF Sync, Leads, Even, Good, IsSessionState
<1>4. /\ y.root = KDF_RK(s.root, DH(f, s.dhr))
      /\ y.cks = [root |-> KDF_RK(s.root, DH(f, s.dhr)), step |-> 0]
      /\ y.ns = 0 /\ y.pn = s.ns /\ y.dhs = f /\ y.dhr = s.dhr
      /\ y.ckr = s.ckr /\ y.nr = s.nr /\ y.skipped = s.skipped
  BY <1>1, SendSteps
<1>5. Good(y, f + 1)
  BY <1>1, NewSendingChain
<1>6. y.root \in RootKey /\ y.cks \in ChainKey /\ y.cks.root = y.root /\ y.cks.step = 0
  BY <1>4, <1>5, KeyForms DEF Good, IsSessionState
<1>7. /\ v.dhs = f /\ v.dhr = s.dhr /\ v.root = y.root /\ v.pn = y.pn
      /\ v.ckr = s.ckr /\ v.nr = s.nr /\ v.skipped = s.skipped
      /\ v.ns = 1 /\ v.cks = [root |-> v.root, step |-> v.ns]
  <2>1. /\ v.dhs = y.dhs /\ v.dhr = y.dhr /\ v.root = y.root /\ v.pn = y.pn
        /\ v.ckr = y.ckr /\ v.nr = y.nr /\ v.skipped = y.skipped
        /\ v.ns = y.ns + 1 /\ v.cks = [root |-> y.cks.root, step |-> y.cks.step + 1]
    BY <1>5, <1>6, SealFrame
  <2> QED BY <1>4, <1>6, <2>1
<1>8. /\ s.dhr = t.dhs /\ t.dhr # Nil /\ t.root = s.root
      /\ t.cks = [root |-> t.root, step |-> t.ns] /\ t.ckr = Nil /\ B = {}
      /\ s.ckr = [root |-> t.root, step |-> s.nr] /\ s.nr <= t.ns
      /\ \A x \in A : OnChain(x, t.dhs, t.root) /\ Opens(s, x)
  BY <1>3 DEF Even
<1>9. t.dhr # f /\ \A l \in DOMAIN t.skipped : l[1] # f
  <2>1. t.dhr < f /\ t.dhr \in Nat
    BY <1>8 DEF Good, SessionInv, IsSessionState, KeyPair
  <2>2. \A l \in DOMAIN t.skipped : l[1] < f /\ l[1] \in Nat
    BY DEF Counted, Good, IsSessionState, IsSkippedMap, Label, KeyPair
  <2> QED BY <2>1, <2>2 DEF KeyPair
<1>10. \A x \in B \cup {m} : OnChain(x, v.dhs, v.root) /\ x.pn = v.pn
  BY <1>4, <1>7, <1>8 DEF SealedIn, OnChain
<1>11. \A x \in A : OnChain(x, t.dhs, t.root) /\ Opens(v, x)
  BY <1>7, <1>8 DEF Opens
<1>12. /\ v.dhr = t.dhs /\ t.dhr # v.dhs
       /\ v.root = KDF_RK(t.root, DH(v.dhs, t.dhs))
       /\ \A l \in DOMAIN t.skipped : l[1] # v.dhs
       /\ v.ckr = [root |-> t.root, step |-> v.nr] /\ v.nr <= t.ns
  BY <1>4, <1>7, <1>8, <1>9
<1>13. Leads(v, t, A, B \cup {m})
  BY <1>7, <1>8, <1>10, <1>11, <1>12 DEF Leads
<1> QED BY <1>4, <1>5, <1>6, <1>8, <1>13 DEF Sync, Answered

\* How v, the state after Encrypt, continues s with message m.
Continues(s, v, m, f, g) ==
  /\ v.dhs = m.dh /\ v.ns = m.n + 1 /\ v.pn = m.pn
  /\ v.cks # Nil /\ v.cks.root = m.mk.root /\ m.mk = [root |-> m.mk.root, step |-> m.n]
  /\ v.dhr = s.dhr /\ v.ckr = s.ckr /\ v.nr = s.nr /\ v.skipped = s.skipped
  /\ \/ g = f /\ m.dh = s.dhs /\ m.n = s.ns /\ m.pn = s.pn /\ s.cks # Nil /\ s.cks = m.mk
     \/ g = f + 1 /\ m.dh = f /\ m.n = 0

\* Encrypt seals the next message of its chain, or the first of a new one.
LEMMA EncryptContinues ==
  ASSUME IInv, DInv, NEW p \in Party, Encrypt(p), NEW q, q = Peer(p)
  PROVE  \E m \in Message : \E v :
           /\ m.id[1] = p /\ m \notin sent
           /\ st' = [st EXCEPT ![p] = v] /\ net' = [net EXCEPT ![q] = Append(@, m)]
           /\ sent' = sent \cup {m} /\ UNCHANGED <<losses, accepted, failed>>
           /\ fresh' \in {fresh, fresh + 1}
           /\ Continues(st[p], v, m, fresh, fresh')
           /\ fresh' # fresh => st[q].ckr = Nil
           /\ \/ Sync(v, st[q], Range(net[p]), Range(net[q]) \cup {m})
              \/ Sync(st[q], v, Range(net[q]) \cup {m}, Range(net[p]))
<1>1. PICK s, t, A, B : s = st[p] /\ t = st[q] /\ A = Range(net[p]) /\ B = Range(net[q])
  OBVIOUS
<1>2. PICK y : y = encryptState(s, fresh)
  OBVIOUS
<1>3. PICK v : v = sealState(y)
  OBVIOUS
<1>4. PICK m : m = [id |-> <<p, nsent[p]>>, dh |-> y.dhs, pn |-> y.pn, n |-> y.ns, mk |-> y.cks]
  OBVIOUS
<1>5. /\ st' = [st EXCEPT ![p] = v] /\ net' = [net EXCEPT ![q] = Append(@, m)]
      /\ sent' = sent \cup {m} /\ UNCHANGED <<losses, accepted, failed>>
      /\ fresh' = (IF s.cks = Nil THEN fresh + 1 ELSE fresh) /\ CanEncrypt(s)
  BY <1>1, <1>2, <1>3, <1>4 DEF Encrypt
<1>6. /\ q \in Party /\ Peer(q) = p /\ fresh \in KeyPair /\ nsent \in [Party -> Nat]
      /\ Good(s, fresh) /\ Good(t, fresh) /\ Counted(t, fresh)
  BY <1>1, Parties DEF IInv, TypeOK, Good, SkippedKeysBounded, DInv, SyncInv
<1>7. Sync(s, t, A, B) \/ Sync(t, s, B, A)
  <2>1. PICK r \in Party : Sync(st[r], st[Peer(r)], Range(net[r]), Range(net[Peer(r)]))
    BY DEF DInv, SyncInv, InSync
  <2>2. r = p \/ r = q
    BY Parties
  <2> QED BY <1>1, <1>6, <2>1, <2>2
<1>8. y.cks \in ChainKey /\ y.dhs \in KeyPair /\ y.pn \in Nat /\ y.ns \in Nat
  BY <1>2, <1>5, <1>6, EncryptState
<1>9. m \in Message /\ SealedIn(y, m) /\ m.id[1] = p
  <2>1. <<p, nsent[p]>> \in Party \X Nat
    BY <1>6
  <2> QED BY <1>4, <1>8, <2>1 DEF Message, SealedIn
<1>10. m \notin sent
  <2>1. m.id[2] = nsent[p] /\ nsent[p] \in Nat
    BY <1>4, <1>6
  <2> QED BY <1>9, <2>1 DEF IInv, MessageInv
<1>11. CASE s.cks # Nil
  <2>1. y = s /\ fresh' = fresh
    BY <1>2, <1>5, <1>11 DEF encryptState
  <2>2. /\ s.cks = [root |-> s.root, step |-> s.ns]
        /\ Sync(v, t, A, B \cup {m}) \/ Sync(t, v, B \cup {m}, A)
    BY <1>3, <1>6, <1>7, <1>9, <1>11, <2>1, SendOn
  <2>3. /\ v.dhs = s.dhs /\ v.dhr = s.dhr /\ v.root = s.root /\ v.pn = s.pn
        /\ v.ckr = s.ckr /\ v.nr = s.nr /\ v.skipped = s.skipped
        /\ v.ns = s.ns + 1 /\ v.cks = [root |-> s.cks.root, step |-> s.cks.step + 1]
    BY <1>3, <1>6, <1>8, <2>1, SealFrame
  <2>4. v.cks # Nil /\ v.cks.root = s.cks.root
    <3>1. s.cks.step + 1 \in Nat /\ s.cks.root \in RootKey
      BY <1>8, <2>1, KeyForms
    <3> QED BY <2>3, <3>1, KeyForms
  <2>5. Continues(s, v, m, fresh, fresh')
    BY <1>9, <1>11, <2>1, <2>2, <2>3, <2>4 DEF Continues, SealedIn
  <2> QED BY <1>1, <1>5, <1>9, <1>10, <2>1, <2>2, <2>5
<1>12. CASE s.cks = Nil
  <2>1. y = dhRatchetSend(s, fresh) /\ fresh' = fresh + 1
    BY <1>2, <1>5, <1>12 DEF encryptState
  <2>2. /\ Sync(v, t, A, B \cup {m}) /\ t.ckr = Nil
        /\ y.ns = 0 /\ y.dhs = fresh /\ y.cks = [root |-> y.root, step |-> 0] /\ y.root \in RootKey
        /\ y.dhr = s.dhr /\ y.ckr = s.ckr /\ y.nr = s.nr /\ y.skipped = s.skipped
        /\ Good(y, fresh + 1)
    <3>1. Answered(s, t, A, B, fresh, y, v, m)
      BY <1>3, <1>5, <1>6, <1>7, <1>9, <1>12, <2>1, SendFirst
    <3> QED BY <3>1 DEF Answered
  <2>3. /\ v.dhs = y.dhs /\ v.dhr = y.dhr /\ v.root = y.root /\ v.pn = y.pn
        /\ v.ckr = y.ckr /\ v.nr = y.nr /\ v.skipped = y.skipped
        /\ v.ns = y.ns + 1 /\ v.cks = [root |-> y.cks.root, step |-> y.cks.step + 1]
    BY <1>3, <1>8, <2>2, SealFrame
  <2>4. v.cks # Nil /\ v.cks.root = y.root
    <3>1. v.cks = [root |-> y.root, step |-> 1]
      BY <2>2, <2>3
    <3> QED BY <2>2, <3>1, KeyForms
  <2>5. Continues(s, v, m, fresh, fresh')
    BY <1>9, <2>1, <2>2, <2>3, <2>4 DEF Continues, SealedIn
  <2> QED BY <1>1, <1>5, <1>9, <1>10, <2>1, <2>2, <2>5
<1> QED BY <1>11, <1>12

\* Encrypt keeps the invariant.
LEMMA EncryptKeeps ==
  ASSUME IInv, DInv, NEW p \in Party, Encrypt(p)
  PROVE  DInv'
<1>1. PICK q : q = Peer(p)
  OBVIOUS
<1>2. PICK m \in Message : \E v :
           /\ m.id[1] = p /\ m \notin sent
           /\ st' = [st EXCEPT ![p] = v] /\ net' = [net EXCEPT ![q] = Append(@, m)]
           /\ sent' = sent \cup {m} /\ UNCHANGED <<losses, accepted, failed>>
           /\ fresh' \in {fresh, fresh + 1}
           /\ Continues(st[p], v, m, fresh, fresh')
           /\ fresh' # fresh => st[q].ckr = Nil
           /\ \/ Sync(v, st[q], Range(net[p]), Range(net[q]) \cup {m})
              \/ Sync(st[q], v, Range(net[q]) \cup {m}, Range(net[p]))
  BY <1>1, EncryptContinues
<1>3. PICK v :
           /\ m.id[1] = p /\ m \notin sent
           /\ st' = [st EXCEPT ![p] = v] /\ net' = [net EXCEPT ![q] = Append(@, m)]
           /\ sent' = sent \cup {m} /\ UNCHANGED <<losses, accepted, failed>>
           /\ fresh' \in {fresh, fresh + 1}
           /\ Continues(st[p], v, m, fresh, fresh')
           /\ fresh' # fresh => st[q].ckr = Nil
           /\ \/ Sync(v, st[q], Range(net[p]), Range(net[q]) \cup {m})
              \/ Sync(st[q], v, Range(net[q]) \cup {m}, Range(net[p]))
  BY <1>2
<1>4. /\ q \in Party /\ q # p /\ Peer(q) = p /\ \A r \in Party : r = p \/ r = q
      /\ net \in [Party -> Seq(Message)] /\ DOMAIN st = Party /\ fresh \in KeyPair /\ fresh \in Nat
      /\ losses \in Nat /\ sent \subseteq Message
      /\ \A r \in Party : IsSessionState(st[r])
  BY <1>1, Parties DEF IInv, TypeOK, KeyPair
<1>5. PICK b : b = net[q]
  OBVIOUS
<1>6. /\ net'[p] = net[p] /\ net'[q] = Append(b, m) /\ b \in Seq(Message)
      /\ st'[p] = v /\ st'[q] = st[q] /\ sent' = sent \cup {m}
  BY <1>3, <1>4, <1>5
<1>7. /\ DOMAIN Append(b, m) = 1 .. (Len(b) + 1) /\ DOMAIN b = 1 .. Len(b) /\ Len(b) \in Nat
      /\ \A j \in DOMAIN b : Append(b, m)[j] = b[j]
      /\ Append(b, m)[Len(b) + 1] = m
      /\ Range(Append(b, m)) = Range(b) \cup {m}
  BY <1>6, AppendEntries
<1>8. \A j \in DOMAIN Append(b, m) : j \in DOMAIN b \/ j = Len(b) + 1
  BY <1>7
<1>9. \A x \in sent : /\ x.id[1] \in Party /\ x.dh \in Nat /\ x.dh < fresh /\ x.dh # fresh /\ x.n \in Nat
                      /\ x.id[1] = p /\ x.dh = st[p].dhs => x.n < st[p].ns
  <2>1. \A x \in sent : x.id[1] \in Party /\ x.dh \in Nat /\ x.n \in Nat
    BY <1>4 DEF Message, KeyPair
  <2>2. \A x \in sent : x.dh < fresh
    BY DEF IInv, MessageInv
  <2>3. \A x \in sent : x.id[1] = p /\ x.dh = st[p].dhs => x.n < st[p].ns
    BY DEF DInv, ChainsComplete
  <2> QED BY <1>4, <2>1, <2>2, <2>3
<1>10. \A j \in DOMAIN b : b[j] \in sent /\ b[j].id[1] = p
  <2>1. b \in Seq(InFlight(q))
    BY <1>4, <1>5 DEF IInv, NetworkInv
  <2>2. \A j \in DOMAIN b : b[j] \in InFlight(q)
    BY <2>1
  <2> QED BY <1>4, <2>2 DEF InFlight
<1>11. m.n \in Nat /\ m.dh \in KeyPair /\ m.pn \in Nat /\ m.mk \in ChainKey
  BY DEF Message
<1>12. /\ v.dhs = m.dh /\ v.ns = m.n + 1 /\ v.pn = m.pn
       /\ v.cks # Nil /\ v.cks.root = m.mk.root /\ m.mk = [root |-> m.mk.root, step |-> m.n]
       /\ v.dhr = st[p].dhr /\ v.ckr = st[p].ckr /\ v.nr = st[p].nr /\ v.skipped = st[p].skipped
  BY <1>3 DEF Continues
<1>13. \/ /\ fresh' = fresh /\ m.dh = st[p].dhs /\ m.n = st[p].ns /\ m.pn = st[p].pn
          /\ st[p].cks # Nil /\ st[p].cks = m.mk
       \/ fresh' = fresh + 1 /\ fresh' # fresh /\ m.dh = fresh /\ m.n = 0
  BY <1>3, <1>4 DEF Continues
<1>14. InSync'
  <2>1. CASE Sync(v, st[q], Range(net[p]), Range(net[q]) \cup {m})
    <3>1. Sync(st'[p], st'[Peer(p)], Range(net'[p]), Range(net'[Peer(p)]))
      BY <1>1, <1>5, <1>6, <1>7, <2>1
    <3> QED BY <3>1 DEF InSync
  <2>2. CASE Sync(st[q], v, Range(net[q]) \cup {m}, Range(net[p]))
    <3>1. Sync(st'[q], st'[Peer(q)], Range(net'[q]), Range(net'[Peer(q)]))
      BY <1>4, <1>5, <1>6, <1>7, <2>2
    <3> QED BY <1>4, <3>1 DEF InSync
  <2> QED BY <1>3, <2>1, <2>2
<1>15. Counted(st'[p], fresh') /\ Counted(st'[q], fresh')
  <2>1. Counted(st[p], fresh') /\ Counted(st[q], fresh')
    BY <1>3, <1>4, CountedLater DEF DInv, SyncInv
  <2> QED BY <1>6, <1>12, <2>1 DEF Counted
<1>16. Outgoing(st'[q], net'[p])
  BY <1>4, <1>6 DEF DInv, SyncInv
<1>17. Outgoing(st'[p], net'[q])
  <2>1. PICK a : a = Append(b, m)
    OBVIOUS
  <2>2. Outgoing(st[p], b)
    BY <1>1, <1>5 DEF DInv, SyncInv
  <2>3. ASSUME NEW j \in DOMAIN a, NEW k \in DOMAIN a, j < k
        PROVE  /\ a[j].dh = m.dh => a[k].dh = m.dh
               /\ a[j].dh = a[k].dh => a[j].n < a[k].n
    <3>1. j \in DOMAIN b
      BY <1>7, <2>1, <2>3
    <3>2. a[j] = b[j] /\ b[j] \in sent /\ b[j].id[1] = p
      BY <1>7, <1>10, <2>1, <3>1
    <3>3. CASE k \in DOMAIN b
      <4>1. a[k] = b[k]
        BY <1>7, <2>1, <3>3
      <4> QED BY <1>9, <1>13, <2>2, <2>3, <3>1, <3>2, <3>3, <4>1 DEF Outgoing
    <3>4. CASE k = Len(b) + 1
      <4>1. a[k] = m
        BY <1>7, <2>1, <3>4
      <4> QED BY <1>9, <1>13, <3>2, <4>1
    <3> QED BY <1>8, <2>1, <3>3, <3>4
  <2> QED BY <1>6, <1>12, <2>1, <2>3 DEF Outgoing
<1>18. SyncInv'
  BY <1>1, <1>4, <1>14, <1>15, <1>16, <1>17 DEF SyncInv
<1>19. \A r, d, n, mk : Sealed(r, d, n, mk) => Among(sent', r, d, n, mk)
  BY <1>6 DEF Sealed, Among
<1>20. ASSUME NEW n \in 0 .. (m.n - 1)
       PROVE  Sealed(p, m.dh, n, [root |-> m.mk.root, step |-> n])
  BY <1>13 DEF DInv, ChainsComplete
<1>21. ChainsComplete'
  <2>1. ASSUME NEW x \in sent', x.dh = st'[x.id[1]].dhs PROVE x.n < st'[x.id[1]].ns
    <3>1. CASE x = m
      BY <1>3, <1>6, <1>11, <1>12, <3>1
    <3>2. CASE x \in sent /\ x.id[1] = q
      BY <1>6, <2>1, <3>2 DEF DInv, ChainsComplete
    <3>3. CASE x \in sent /\ x.id[1] = p
      BY <1>6, <1>9, <1>11, <1>12, <1>13, <2>1, <3>3
    <3> QED BY <1>4, <1>6, <1>9, <3>1, <3>2, <3>3
  <2>2. ASSUME NEW x \in sent', NEW n \in 0 .. (x.n - 1)
        PROVE  Sealed(x.id[1], x.dh, n, [root |-> x.mk.root, step |-> n])
    <3>1. CASE x = m
      BY <1>3, <1>20, <3>1
    <3>2. CASE x \in sent
      BY <3>2 DEF DInv, ChainsComplete
    <3> QED BY <1>6, <3>1, <3>2
  <2>3. ASSUME NEW n \in 0 .. (st'[p].ns - 1)
        PROVE  Among(sent', p, st'[p].dhs, n, [root |-> st'[p].cks.root, step |-> n])
    <3>1. CASE n = m.n
      BY <1>3, <1>6, <1>12, <3>1 DEF Among
    <3>2. CASE n \in 0 .. (m.n - 1)
      BY <1>6, <1>12, <1>19, <1>20, <3>2
    <3> QED BY <1>6, <1>11, <1>12, <3>1, <3>2
  <2>4. ASSUME st'[q].cks # Nil, NEW n \in 0 .. (st'[q].ns - 1)
        PROVE  Sealed(q, st'[q].dhs, n, [root |-> st'[q].cks.root, step |-> n])
    BY <1>4, <1>6, <2>4 DEF DInv, ChainsComplete
  <2>5. ASSUME st'[p].dhs # st'[q].dhr, st'[q].ckr # Nil, NEW n \in 0 .. (st'[p].pn - 1)
        PROVE  Sealed(p, st'[q].dhr, n, [root |-> st'[q].ckr.root, step |-> n])
    <3>1. m.dh = st[p].dhs /\ m.pn = st[p].pn
      BY <1>3, <1>6, <1>13, <2>5
    <3> QED BY <1>1, <1>6, <1>12, <2>5, <3>1 DEF DInv, ChainsComplete
  <2>6. ASSUME st'[q].dhs # st'[p].dhr, st'[p].ckr # Nil, NEW n \in 0 .. (st'[q].pn - 1)
        PROVE  Sealed(q, st'[p].dhr, n, [root |-> st'[p].ckr.root, step |-> n])
    BY <1>4, <1>6, <1>12, <2>6 DEF DInv, ChainsComplete
  <2>7. \A x \in sent' : \A n \in 0 .. (x.n - 1) :
          Among(sent', x.id[1], x.dh, n, [root |-> x.mk.root, step |-> n])
    BY <1>19, <2>2
  <2>8. \A r \in Party :
          st'[r].cks # Nil => \A n \in 0 .. (st'[r].ns - 1) :
            Among(sent', r, st'[r].dhs, n, [root |-> st'[r].cks.root, step |-> n])
    BY <1>4, <1>19, <2>3, <2>4
  <2>9. \A r \in Party :
          st'[r].dhs # st'[Peer(r)].dhr /\ st'[Peer(r)].ckr # Nil
            => \A n \in 0 .. (st'[r].pn - 1) :
                 Among(sent', r, st'[Peer(r)].dhr, n, [root |-> st'[Peer(r)].ckr.root, step |-> n])
    BY <1>1, <1>4, <1>19, <2>5, <2>6
  <2> QED BY <2>1, <2>7, <2>8, <2>9 DEF ChainsComplete, Sealed
<1>22. CacheAccounted'
  <2>1. /\ \A l \in DOMAIN st[p].skipped : Sealed(q, l[1], l[2], st[p].skipped[l])
        /\ \A j \in DOMAIN net[p] : LabelOf(net[p][j]) \in DOMAIN st[p].skipped => j < Window
    BY <1>1 DEF DInv, CacheAccounted
  <2>2. /\ \A l \in DOMAIN st[q].skipped : Sealed(p, l[1], l[2], st[q].skipped[l])
        /\ \A j \in DOMAIN b : LabelOf(b[j]) \in DOMAIN st[q].skipped => j < Window
    BY <1>4, <1>5 DEF DInv, CacheAccounted
  <2>3. LabelOf(m) \notin DOMAIN st[q].skipped
    <3>1. SUFFICES ASSUME LabelOf(m) \in DOMAIN st[q].skipped PROVE FALSE
      OBVIOUS
    <3>2. Sealed(p, m.dh, m.n, st[q].skipped[LabelOf(m)])
      BY <2>2, <3>1 DEF LabelOf
    <3>3. PICK x \in sent : x.id[1] = p /\ x.dh = m.dh /\ x.n = m.n
      BY <3>2 DEF Sealed, Among
    <3> QED BY <1>9, <1>13, <3>3
  <2>4. ASSUME NEW j \in DOMAIN Append(b, m), LabelOf(Append(b, m)[j]) \in DOMAIN st[q].skipped
        PROVE  j < Window
    <3>1. j # Len(b) + 1
      BY <1>7, <2>3, <2>4
    <3>2. j \in DOMAIN b /\ Append(b, m)[j] = b[j]
      BY <1>7, <1>8, <3>1
    <3> QED BY <2>2, <2>4, <3>2
  <2>5. /\ \A l \in DOMAIN st'[p].skipped : Sealed(Peer(p), l[1], l[2], st'[p].skipped[l])
        /\ \A j \in DOMAIN net'[p] : LabelOf(net'[p][j]) \in DOMAIN st'[p].skipped => j < Window
    BY <1>1, <1>6, <1>12, <2>1
  <2>6. /\ \A l \in DOMAIN st'[q].skipped : Sealed(Peer(q), l[1], l[2], st'[q].skipped[l])
        /\ \A j \in DOMAIN net'[q] : LabelOf(net'[q][j]) \in DOMAIN st'[q].skipped => j < Window
    BY <1>4, <1>6, <2>2, <2>4
  <2>7. ASSUME NEW r \in Party
        PROVE  /\ \A l \in DOMAIN st'[r].skipped :
                    Among(sent', Peer(r), l[1], l[2], st'[r].skipped[l])
               /\ \A j \in DOMAIN net'[r] : LabelOf(net'[r][j]) \in DOMAIN st'[r].skipped => j < Window
    BY <1>4, <1>19, <2>5, <2>6
  <2> QED BY <2>7 DEF CacheAccounted, Sealed, LabelOf
<1>23. LossInv'
  <2>1. Lost' \subseteq Lost
    <3>1. SUFFICES ASSUME NEW x \in sent', x.id \notin accepted[Peer(x.id[1])],
                          \A k \in DOMAIN net'[Peer(x.id[1])] : net'[Peer(x.id[1])][k] # x
                   PROVE  /\ x \in sent
                          /\ \A k \in DOMAIN net[Peer(x.id[1])] : net[Peer(x.id[1])][k] # x
      BY <1>3 DEF Lost
    <3>2. \A k \in DOMAIN b : k \in DOMAIN Append(b, m) /\ Append(b, m)[k] = b[k]
      BY <1>7
    <3>3. x # m
      <4>1. Len(b) + 1 \in DOMAIN Append(b, m)
        BY <1>7
      <4> QED BY <1>1, <1>3, <1>6, <1>7, <3>1, <4>1
    <3>4. x \in sent /\ x.id[1] \in Party
      BY <1>6, <1>9, <3>3
    <3>5. CASE x.id[1] = p
      BY <1>1, <1>5, <1>6, <3>1, <3>2, <3>4, <3>5
    <3>6. CASE x.id[1] = q
      BY <1>4, <1>6, <3>1, <3>4, <3>6
    <3> QED BY <1>4, <3>4, <3>5, <3>6
  <2>2. losses' = losses + 0 /\ losses' \in Nat /\ losses <= MaxLosses /\ losses' = losses
        /\ IsFiniteSet(sent)
    BY <1>3, <1>4 DEF DInv, LossInv
  <2>3. IsFiniteSet(sent')
    BY <1>6, <2>2, FS_AddElement
  <2>4. Lost' \subseteq Lost \cup (IF 0 = 0 THEN {} ELSE {m})
    BY <2>1
  <2> QED BY <1>4, <2>2, <2>3, <2>4, LostBounded DEF DInv
<1>24. NoDecryptFailure'
  BY <1>3 DEF DInv, NoDecryptFailure
<1> QED BY <1>18, <1>21, <1>22, <1>23, <1>24 DEF DInv

-----------------------------------------------------------------------------
(* Losing a message *)

\* Losing messages leaves the sessions in step.
LEMMA SyncShrinks ==
  ASSUME NEW s, NEW t, NEW A, NEW B, Sync(s, t, A, B),
         NEW A1 \in SUBSET A, NEW B1 \in SUBSET B
  PROVE  Sync(s, t, A1, B1)
<1>1. CASE Leads(s, t, A, B)
  <2>1. Leads(s, t, A1, B1)
    BY <1>1 DEF Leads
  <2> QED BY <2>1 DEF Sync
<1>2. CASE Even(s, t, A, B)
  <2>1. Even(s, t, A1, B1)
    BY <1>2 DEF Even
  <2> QED BY <2>1 DEF Sync
<1> QED BY <1>1, <1>2 DEF Sync

\* Lose keeps the invariant.
LEMMA LoseKeeps ==
  ASSUME IInv, DInv, NEW p \in Party, Lose(p)
  PROVE  DInv'
<1>1. PICK i \in DOMAIN net[p] :
        /\ losses < MaxLosses
        /\ net' = [net EXCEPT ![p] = RemoveAt(@, i)]
        /\ losses' = losses + 1
        /\ UNCHANGED <<st, fresh, nsent, dups, sent, accepted, failed>>
  BY DEF Lose
<1>2. PICK q : q = Peer(p)
  OBVIOUS
<1>3. PICK b : b = RemoveAt(net[p], i)
  OBVIOUS
<1>4. PICK m : m = net[p][i]
  OBVIOUS
<1>5. /\ q \in Party /\ q # p /\ Peer(q) = p /\ \A r \in Party : r = p \/ r = q
      /\ net \in [Party -> Seq(Message)] /\ losses \in Nat /\ sent \subseteq Message
  BY <1>2, Parties DEF IInv, TypeOK
<1>6. net'[p] = b /\ net'[q] = net[q]
  BY <1>1, <1>3, <1>5
<1>7. /\ b \in Seq(Message)
      /\ \A j \in DOMAIN b : Before(i, j) \in DOMAIN net[p] /\ b[j] = net[p][Before(i, j)]
      /\ \A k \in DOMAIN net[p] : k # i => \E j \in DOMAIN b : b[j] = net[p][k]
  BY <1>3, <1>5, RemoveAtEntries
<1>8. Range(b) \in SUBSET Range(net[p])
  BY <1>7 DEF Range
<1>9. st' = st /\ fresh' = fresh /\ sent' = sent /\ accepted' = accepted /\ failed' = failed
  BY <1>1
<1>10. InSync'
  <2>1. PICK r \in Party : Sync(st[r], st[Peer(r)], Range(net[r]), Range(net[Peer(r)]))
    BY DEF DInv, SyncInv, InSync
  <2>2. \A o \in Party : Range(net'[o]) \in SUBSET Range(net[o])
    BY <1>5, <1>6, <1>8
  <2>3. Peer(r) \in Party
    BY Parties
  <2>4. Sync(st[r], st[Peer(r)], Range(net'[r]), Range(net'[Peer(r)]))
    BY <2>1, <2>2, <2>3, SyncShrinks
  <2>5. Sync(st'[r], st'[Peer(r)], Range(net'[r]), Range(net'[Peer(r)]))
    BY <1>9, <2>4
  <2> QED BY <2>5 DEF InSync
<1>11. Outgoing(st'[q], net'[p]) /\ Outgoing(st'[p], net'[q])
  <2>1. Outgoing(st[q], net[p]) /\ Outgoing(st[p], net[q])
    BY <1>2, <1>5 DEF DInv, SyncInv
  <2>2. Outgoing(st[q], b)
    BY <1>3, <1>5, <2>1, OutgoingShrinks
  <2> QED BY <1>6, <1>9, <2>1, <2>2
<1>12. SyncInv'
  <2>1. \A r \in Party : Counted(st'[r], fresh')
    BY <1>9 DEF DInv, SyncInv
  <2>2. \A r \in Party : Outgoing(st'[r], net'[Peer(r)])
    BY <1>2, <1>5, <1>11
  <2> QED BY <1>10, <2>1, <2>2 DEF SyncInv
<1>13. ChainsComplete'
  BY <1>9 DEF DInv, ChainsComplete, Sealed
<1>14. CacheAccounted'
  <2> HIDE DEF LabelOf
  <2>1. ASSUME NEW j \in DOMAIN b, LabelOf(b[j]) \in DOMAIN st[p].skipped PROVE j < Window
    <3>1. Before(i, j) < Window
      BY <1>7, <2>1 DEF DInv, CacheAccounted
    <3>2. j \in Nat /\ i \in Nat /\ j <= Before(i, j) /\ Before(i, j) \in Nat
      BY <1>5, <1>7 DEF Before
    <3> QED BY <3>1, <3>2, BoundAssumption
  <2>2. ASSUME NEW r \in Party
        PROVE  /\ \A l \in DOMAIN st'[r].skipped : Among(sent', Peer(r), l[1], l[2], st'[r].skipped[l])
               /\ \A j \in DOMAIN net'[r] : LabelOf(net'[r][j]) \in DOMAIN st'[r].skipped => j < Window
    <3>1. \A l \in DOMAIN st[r].skipped : Among(sent, Peer(r), l[1], l[2], st[r].skipped[l])
      BY DEF DInv, CacheAccounted, Sealed
    <3>2. \A j \in DOMAIN net[q] : LabelOf(net[q][j]) \in DOMAIN st[q].skipped => j < Window
      BY <1>5 DEF DInv, CacheAccounted
    <3> QED BY <1>5, <1>6, <1>9, <2>1, <3>1, <3>2
  <2> QED BY <2>2 DEF CacheAccounted, Sealed, LabelOf
<1>15. LossInv'
  <2>1. Lost' \subseteq Lost \cup {m}
    <3>1. SUFFICES ASSUME NEW x \in sent, x # m, x.id \notin accepted[Peer(x.id[1])],
                          \A k \in DOMAIN net'[Peer(x.id[1])] : net'[Peer(x.id[1])][k] # x
                   PROVE  \A k \in DOMAIN net[Peer(x.id[1])] : net[Peer(x.id[1])][k] # x
      BY <1>9 DEF Lost
    <3>2. Peer(x.id[1]) \in Party
      BY <1>5, Parties DEF Message
    <3>3. CASE Peer(x.id[1]) = p
      BY <1>4, <1>6, <1>7, <3>1, <3>3
    <3>4. CASE Peer(x.id[1]) = q
      BY <1>6, <3>1, <3>4
    <3> QED BY <1>5, <3>2, <3>3, <3>4
  <2>2. losses' \in Nat /\ losses' <= MaxLosses /\ IsFiniteSet(sent') /\ LossInv
    BY <1>1, <1>5, <1>9, BoundAssumption DEF DInv, LossInv
  <2>3. Lost' \subseteq Lost \cup (IF 1 = 0 THEN {} ELSE {m})
    BY <2>1
  <2> QED BY <1>1, <1>5, <2>2, <2>3, LostBounded
<1>16. NoDecryptFailure'
  BY <1>9 DEF DInv, NoDecryptFailure
<1> QED BY <1>12, <1>13, <1>14, <1>15, <1>16 DEF DInv

-----------------------------------------------------------------------------
(* The first state *)

\* X3DH: both parties compute the same shared secret.
LEMMA SameSecret ==
  ASSUME NEW a, NEW b, NEW c, NEW o, NEW e
  PROVE  X3DHInitiator(a, b, c, o, e) = X3DHResponder(b, c, o, a, e)
<1>1. \A x, y : DH(x, y) = DH(y, x)
  BY DEF DH
<1>2. /\ DH(a, c) = DH(c, a) /\ DH(e, b) = DH(b, e) /\ DH(e, c) = DH(c, e) /\ DH(e, o) = DH(o, e)
  BY <1>1
<1> QED BY <1>2 DEF X3DHInitiator, X3DHResponder

\* The states X3DH sets up satisfy the invariant.
LEMMA InitDelivery == Init => DInv
<1> SUFFICES ASSUME Init PROVE DInv
  OBVIOUS
<1>1. PICK opk \in {OPK, Nil} :
        st = [p \in Party |->
         IF p = Initiator
           THEN NewDoubleRatchetStateInitiator(
                  X3DHInitiator(IKInitiator, IKResponder, SPK, opk, EK),
                  SPK, FirstRatchetKey)
           ELSE NewDoubleRatchetStateResponder(
                  X3DHResponder(IKResponder, SPK, opk, IKInitiator, EK), SPK)]
  BY DEF Init
<1>2. PICK sk : /\ sk = X3DHInitiator(IKInitiator, IKResponder, SPK, opk, EK)
                /\ sk = X3DHResponder(IKResponder, SPK, opk, IKInitiator, EK)
  BY SameSecret
<1>3. PICK a, b : a = st[Initiator] /\ b = st[Responder]
  OBVIOUS
<1>4. PICK rk : rk = KDF_RK([sk |-> sk, mixed |-> <<>>], DH(FirstRatchetKey, SPK))
  OBVIOUS
<1>5. /\ a = NewDoubleRatchetStateInitiator(sk, SPK, FirstRatchetKey)
      /\ b = NewDoubleRatchetStateResponder(sk, SPK)
  BY <1>1, <1>2, <1>3, PartyAssumption DEF Party
<1>6. /\ a.dhs = FirstRatchetKey /\ a.dhr = SPK /\ a.root = rk /\ a.cks = ChainOf(rk)
      /\ a.ns = 0 /\ a.pn = 0 /\ a.ckr = Nil /\ a.nr = 0 /\ a.skipped = NoKeys
  BY <1>4, <1>5 DEF NewDoubleRatchetStateInitiator
<1>7. /\ b.dhs = SPK /\ b.dhr = Nil /\ b.root = [sk |-> sk, mixed |-> <<>>]
      /\ b.cks = Nil /\ b.ns = 0 /\ b.pn = 0 /\ b.ckr = Nil /\ b.nr = 0
      /\ b.skipped = NoKeys
  BY <1>5 DEF NewDoubleRatchetStateResponder
<1>8. /\ net = [p \in Party |-> <<>>] /\ losses = 0 /\ sent = {}
      /\ failed = [p \in Party |-> {}] /\ DOMAIN NoKeys = {}
  BY DEF Init, NoKeys
<1>9. ChainOf(rk) = [root |-> rk, step |-> 0] /\ FirstRatchetKey # Nil
  BY NilAssumption DEF ChainOf, FirstRatchetKey, KeyPair
<1>10. Leads(a, b, {}, {})
  BY <1>4, <1>6, <1>7, <1>8, <1>9 DEF Leads
<1>11. /\ Initiator \in Party /\ Responder \in Party /\ Peer(Initiator) = Responder
       /\ \A p \in Party : p = Initiator \/ p = Responder
  BY DEF Party, Peer
<1>12. InSync
  <2>1. Range(net[Initiator]) = {} /\ Range(net[Responder]) = {}
    BY <1>8, <1>11 DEF Range
  <2>2. Sync(st[Initiator], st[Peer(Initiator)], Range(net[Initiator]), Range(net[Peer(Initiator)]))
    BY <1>3, <1>10, <1>11, <2>1 DEF Sync
  <2> QED BY <1>11, <2>2 DEF InSync
<1>13. \A p \in Party : Counted(st[p], fresh) /\ Outgoing(st[p], net[Peer(p)])
  <2>1. \A p \in Party : DOMAIN st[p].skipped = {} /\ st[p].ckr = Nil /\ net[Peer(p)] = <<>>
    BY <1>3, <1>6, <1>7, <1>8, <1>11, Parties
  <2> QED BY <2>1 DEF Counted, Outgoing
<1>14. ChainsComplete
  <2>1. \A p \in Party : st[p].ns = 0 /\ st[p].pn = 0
    BY <1>3, <1>6, <1>7, <1>11
  <2> QED BY <1>8, <2>1 DEF ChainsComplete
<1>15. CacheAccounted
  BY <1>3, <1>6, <1>7, <1>8, <1>11 DEF CacheAccounted
<1>16. LossInv
  <2>1. Lost = {}
    BY <1>8 DEF Lost
  <2> QED BY <1>8, <2>1, FS_EmptySet, BoundAssumption DEF LossInv
<1>17. NoDecryptFailure
  BY <1>8 DEF NoDecryptFailure
<1> QED BY <1>12, <1>13, <1>14, <1>15, <1>16, <1>17 DEF DInv, SyncInv

-----------------------------------------------------------------------------
(* The theorem *)

\* Every step keeps the invariant; no duplicate is delivered when MaxDups is 0.
LEMMA DeliveryInvariant ==
  ASSUME ~CrossChain, MaxDups = 0, MaxLosses + Window - 1 <= MaxSkippedKeys
  PROVE  IInv /\ DInv /\ [Next]_vars => DInv'
<1> SUFFICES ASSUME IInv, DInv, [Next]_vars PROVE DInv'
  OBVIOUS
<1>1. ASSUME NEW p \in Party, Encrypt(p) PROVE DInv'
  BY <1>1, EncryptKeeps
<1>2. ASSUME NEW p \in Party, Deliver(p) PROVE DInv'
  BY <1>2, DeliverKeeps
<1>3. ASSUME NEW p \in Party, Duplicate(p) PROVE DInv'
  <2>1. dups < 0 /\ dups \in Nat
    BY <1>3 DEF Duplicate, IInv, TypeOK
  <2> QED BY <2>1
<1>4. ASSUME NEW p \in Party, Lose(p) PROVE DInv'
  BY <1>4, LoseKeeps
<1>5. CASE UNCHANGED vars
  <2>1. /\ st' = st /\ fresh' = fresh /\ net' = net /\ losses' = losses /\ sent' = sent
        /\ accepted' = accepted /\ failed' = failed
    BY <1>5 DEF vars
  <2>2. SyncInv'
    BY <2>1 DEF DInv, SyncInv, InSync
  <2>3. ChainsComplete' /\ CacheAccounted'
    BY <2>1 DEF DInv, ChainsComplete, CacheAccounted, Sealed
  <2>4. LossInv'
    BY <2>1 DEF DInv, LossInv, Lost
  <2>5. NoDecryptFailure'
    BY <2>1 DEF DInv, NoDecryptFailure
  <2> QED BY <2>2, <2>3, <2>4, <2>5 DEF DInv
<1> QED BY <1>1, <1>2, <1>3, <1>4, <1>5 DEF Next

\* Decrypt opens every message on its first arrival, for any number of messages
\* and of losses, when the network delivers each sending chain before the next
\* one, does not duplicate, and the cache holds as many keys as messages can be
\* lost or overtaken.
THEOREM Delivered ==
  ASSUME ~CrossChain, MaxDups = 0, MaxLosses + Window - 1 <= MaxSkippedKeys
  PROVE  Spec => []NoDecryptFailure
<1>1. Init => DInv
  BY InitDelivery
<1>2. IInv /\ DInv /\ [Next]_vars => DInv'
  BY DeliveryInvariant
<1>3. DInv => NoDecryptFailure
  BY DEF DInv
<1> QED BY <1>1, <1>2, <1>3, Invariant, PTL DEF Spec

=============================================================================
