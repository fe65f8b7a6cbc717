------------------------------ MODULE Identity ------------------------------
(***************************************************************************)
(* Identity documents (identity/identity_document.go), the certificates    *)
(* and prekeys in them (identity/identity_v1.go, multidevice/device.go,    *)
(* multidevice/revocation.go) and their publication in the DHT             *)
(* (identity/dht_identity.go).                                             *)
(*                                                                         *)
(* The devices of one identity all have its key.  Each makes documents     *)
(* from the one it knows, publishes and fetches them; whom the application *)
(* lists or revokes, and when it looks after its prekeys, is its choice.   *)
(* A signature is the data that was signed.  A time is serialised in a     *)
(* byte order: two orders differ for every time but zero.  One-time        *)
(* prekeys, names and feature flags are left out.                          *)
(***************************************************************************)
EXTENDS Integers, Sequences, FiniteSets

CONSTANTS
  Device,       \* devices of the identity
  First,        \* the device of IdentityV1; the others are registered by the DeviceManager
  Party,        \* who fetches documents: devices and contacts
  Day,          \* ticks in 24 hours
  SPKRotation,  \* ticks in SPKRotationDays
  SPKOverlap,   \* ticks in SPKOverlapHours
  CheckEvery,   \* ticks between two looks at the prekeys
  Word,         \* sequence numbers are modulo Word (2^64)
  MaxDocs,      \* bound: documents
  MaxNow        \* bound: time

VARIABLES
  now,
  certs,     \* device certificates made so far
  prekey,    \* the last signed prekey of a device
  checked,   \* when a device last looked after its prekey
  docs,      \* the documents made so far
  dht,       \* the document in the DHT
  known      \* the document a party has

vars == <<now, certs, prekey, checked, docs, dht, known>>

None == 0
NoPrekey == [dev |-> None, created |-> 0, expires |-> 0, sig |-> <<>>]

\* A time in eight bytes.
Bytes(order, t) == IF t = 0 THEN <<0>> ELSE <<order, t>>

\* Fields 1-7 of a certificate: identity_v1.go writes little-endian times ...
CertData(c) == <<c.dev, Bytes("little", c.created), Bytes("little", c.expires)>>
\* ... and device.go big-endian ones.
CertDataBE(c) == <<c.dev, Bytes("big", c.created), Bytes("big", c.expires)>>

Cert(d) == [dev |-> d, created |-> now, expires |-> 0, sig |-> <<>>]
SignDeviceCertificate(c) == [c EXCEPT !.sig = CertData(c)]
signDeviceCertificate(c) == [c EXCEPT !.sig = CertDataBE(c)]
VerifyDeviceCertificate(c) == c.sig = CertData(c)

\* Fields 1-5 of a signed prekey.
PrekeyData(k) == <<k.dev, Bytes("little", k.created), Bytes("little", k.expires)>>
SignSignedPrekey(k) == [k EXCEPT !.sig = PrekeyData(k)]
VerifySignedPrekey(k) == k.sig = PrekeyData(k)

\* Fields 1-16 of a document as the manager signs them, without those that are
\* the same in every document ...
serializeDocumentForSigning(doc) ==
  <<doc.seq>> \o (IF doc.prev = None THEN <<>> ELSE <<doc.prev>>)
    \o <<Bytes("little", doc.created), Bytes("little", doc.updated)>>
    \o doc.devices \o doc.prekeys \o doc.revocations
SignIdentityDocument(doc) == [doc EXCEPT !.sig = serializeDocumentForSigning(doc)]

\* ... and in a second function as they are verified.
serializeForVerification(doc) ==
  LET hash == IF doc.prev = None THEN <<>> ELSE <<doc.prev>>
      times == <<Bytes("little", doc.created), Bytes("little", doc.updated)>>
  IN  <<doc.seq>> \o hash \o times \o doc.devices \o doc.prekeys \o doc.revocations

MutantVerifyIdentityDocument(doc) ==
  /\ doc.sig = serializeForVerification(doc)
  /\ \A i \in DOMAIN doc.prekeys : VerifySignedPrekey(doc.prekeys[i])
  /\ doc.seq # 0
  /\ now - Day <= doc.updated /\ doc.updated <= now + Day

VerifyIdentityDocument(doc) ==
  /\ doc.sig = serializeForVerification(doc)
  /\ \A i \in DOMAIN doc.devices : VerifyDeviceCertificate(doc.devices[i])
  /\ \A i \in DOMAIN doc.prekeys : VerifySignedPrekey(doc.prekeys[i])
  /\ doc.seq # 0
  /\ now - Day <= doc.updated /\ doc.updated <= now + Day

PrevSequence(p) == IF p = None THEN 0 ELSE docs[p].seq
\* The hash of a document is its number.
ComputeDocumentHash(p) == p

MutantCreateIdentityDocument(prevSequence, prevHash, devices, prekeys) ==
  SignIdentityDocument(
    [seq |-> IF prevSequence = 0 THEN 1 ELSE prevSequence, prev |-> prevHash,
     created |-> now, updated |-> now,
     devices |-> devices, prekeys |-> prekeys, revocations |-> <<>>, sig |-> <<>>])

\* The sequence number skips zero when it wraps; an update has the number of
\* the document before as its time of creation.
CreateIdentityDocument(prevSequence, prevHash, devices, prekeys) ==
  LET next == (prevSequence + 1) % Word
  IN  SignIdentityDocument(
        [seq |-> IF next = 0 THEN 1 ELSE next, prev |-> prevHash,
         created |-> IF prevSequence > 0 THEN prevSequence ELSE now, updated |-> now,
         devices |-> devices, prekeys |-> prekeys, revocations |-> <<>>, sig |-> <<>>])

-----------------------------------------------------------------------------
(* Revocations.                                                            *)

\* RevokeDevice and signRevocation: the key of the device and a time.
RevokeDevice(d) == [dev |-> d, at |-> now, sig |-> <<d, Bytes("big", now)>>]
VerifyRevocation(r) == r.sig = <<r.dev, Bytes("big", r.at)>>

Revoked(doc, d) == \E i \in DOMAIN doc.revocations : doc.revocations[i].dev = d
Listed(doc, d) == \E i \in DOMAIN doc.devices : doc.devices[i].dev = d

MutantIsDeviceRevoked(doc, d) == Revoked(doc, d)

\* A device is revoked that is named by a revocation, or is not listed.
IsDeviceRevoked(doc, d) == Revoked(doc, d) \/ ~Listed(doc, d)

\* The certificates of a document that no revocation names.
GetActiveDevices(doc) ==
  {c \in {doc.devices[i] : i \in DOMAIN doc.devices} : ~Revoked(doc, c.dev)}

-----------------------------------------------------------------------------
Init ==
  /\ now = 1 /\ certs = {} /\ docs = <<>> /\ dht = None
  /\ prekey = [d \in Device |-> NoPrekey] /\ checked = [d \in Device |-> now]
  /\ known = [p \in Party |-> None]

\* IdentityV1.CreateDeviceCertificate.
CreateDeviceCertificate(d) ==
  /\ d = First /\ \A c \in certs : c.dev # d
  /\ certs' = certs \cup {SignDeviceCertificate(Cert(d))}
  /\ UNCHANGED <<now, prekey, checked, docs, dht, known>>

\* DeviceManager.RegisterNewDevice.
RegisterNewDevice(d) ==
  /\ d # First /\ \A c \in certs : c.dev # d
  /\ certs' = certs \cup {signDeviceCertificate(Cert(d))}
  /\ UNCHANGED <<now, prekey, checked, docs, dht, known>>

MutantSPKNeedsRotation(k) == k = NoPrekey \/ now > k.expires

\* SPKNeedsRotation: within the overlap before it expires.
SPKNeedsRotation(k) == k = NoPrekey \/ now > k.expires - SPKOverlap

GenerateSignedPrekey(d) ==
  SignSignedPrekey([dev |-> d, created |-> now, expires |-> now + SPKRotation, sig |-> <<>>])

\* The application looks after the prekey of its device.
CheckPrekey(d) ==
  /\ d = First /\ (checked[d] < now \/ prekey[d] = NoPrekey)
  /\ checked' = [checked EXCEPT ![d] = now]
  /\ prekey' = IF SPKNeedsRotation(prekey[d])
               THEN [prekey EXCEPT ![d] = GenerateSignedPrekey(d)] ELSE prekey
  /\ UNCHANGED <<now, certs, docs, dht, known>>

\* A device makes a document from the one it knows, with a further device or
\* a further revocation; documents with revocations are signed once more.
Update(d, more, gone) ==
  LET p == known[d]
      old == IF p = None THEN [devices |-> <<>>, revocations |-> <<>>] ELSE docs[p]
      doc == CreateIdentityDocument(PrevSequence(p), ComputeDocumentHash(p), old.devices \o more,
               IF prekey[d] = NoPrekey THEN <<>> ELSE <<prekey[d]>>)
  IN  /\ Len(docs) < MaxDocs
      /\ \A i \in DOMAIN more : \A j \in DOMAIN old.devices : old.devices[j].dev # more[i].dev
      /\ \A i \in DOMAIN gone : Listed(old, gone[i].dev) /\ ~Revoked(old, gone[i].dev)
      /\ docs' = Append(docs, SignIdentityDocument(
                   [doc EXCEPT !.revocations = old.revocations \o gone]))
      /\ known' = [known EXCEPT ![d] = Len(docs')]
      /\ UNCHANGED <<now, certs, prekey, checked, dht>>

\* PublishIdentityDocument, also of a document that is not the latest.
PublishIdentityDocument(d) ==
  /\ known[d] \notin {None, dht} /\ dht' = known[d]
  /\ UNCHANGED <<now, certs, prekey, checked, docs, known>>

\* FetchIdentityDocument: any valid document, whatever the party knew.
FetchIdentityDocument(p) ==
  /\ dht \notin {None, known[p]} /\ VerifyIdentityDocument(docs[dht])
  /\ known' = [known EXCEPT ![p] = dht]
  /\ UNCHANGED <<now, certs, prekey, checked, docs, dht>>

\* Time goes on; no device leaves its prekey alone for longer than CheckEvery.
Tick ==
  /\ now < MaxNow /\ \A d \in Device : prekey[d] # NoPrekey => now - checked[d] < CheckEvery
  /\ now' = now + 1
  /\ UNCHANGED <<certs, prekey, checked, docs, dht, known>>

Next ==
  \/ Tick
  \/ \E p \in Party : FetchIdentityDocument(p)
  \/ \E d \in Device :
       \/ CreateDeviceCertificate(d) \/ RegisterNewDevice(d) \/ CheckPrekey(d)
       \/ PublishIdentityDocument(d)
       \/ \E c \in certs : Update(d, <<c>>, <<>>)
       \/ \E g \in Device : Update(d, <<>>, <<RevokeDevice(g)>>)

Spec == Init /\ [][Next]_vars

-----------------------------------------------------------------------------
\* The documents a document descends from, itself included.
Lineage[i \in 0 .. Len(docs)] == IF i = None THEN {} ELSE {i} \cup Lineage[docs[i].prev]

\* A document is accepted for a day, and only if none of its devices was
\* registered by the multidevice package, whose certificates the identity
\* package does not verify (VerifyIdentityDocument, signDeviceCertificate).
VerifiesForADay ==
  \A i \in DOMAIN docs :
    VerifyIdentityDocument(docs[i]) <=>
      /\ now - docs[i].updated <= Day
      /\ \A j \in DOMAIN docs[i].devices : docs[i].devices[j].sig[2][1] = "little"

\* The sequence number of a document counts the documents it descends from,
\* skipping zero when it wraps, on both sides of a fork of two devices
\* (CreateIdentityDocument).
SequenceCountsLineage ==
  \A i \in DOMAIN docs : docs[i].seq = ((Cardinality(Lineage[i]) - 1) % (Word - 1)) + 1

\* A device whose application looks after its prekey never is without a valid
\* one (SPKNeedsRotation, GenerateSignedPrekey).
PrekeyNeverLapses ==
  \A d \in Device : prekey[d] # NoPrekey => now <= prekey[d].expires

\* What a device is told about a document and what is sent by it agree: the
\* devices that are not revoked are the active ones, and every revocation is
\* one its reader verifies (IsDeviceRevoked, GetActiveDevices, VerifyRevocation).
ActiveAgree ==
  \A i \in DOMAIN docs :
    /\ {d \in Device : ~IsDeviceRevoked(docs[i], d)} = {c.dev : c \in GetActiveDevices(docs[i])}
    /\ \A j \in DOMAIN docs[i].revocations : VerifyRevocation(docs[i].revocations[j])

\* Documents made by several devices are accepted, numbered and read alike, and
\* have valid prekeys.
DocumentsSound == VerifiesForADay /\ SequenceCountsLineage /\ PrekeyNeverLapses /\ ActiveAgree
=============================================================================
