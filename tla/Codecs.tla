------------------------------ MODULE Codecs --------------------------------
(***************************************************************************)
(* Negotiation of audio and video codecs (rtc/codec.go): the answerer      *)
(* selects from an offer and the offerer reads the answer.  An SDP is its  *)
(* sequence of a=rtpmap lines; names are compared without regard to case.  *)
(***************************************************************************)
EXTENDS Integers, Sequences, FiniteSets

CONSTANTS
  Name,         \* names in offers
  Payload,      \* payload types in offers, some no uint8
  MaxLines      \* bound: lines of an offer

VARIABLES
  offer,     \* lines of the offer
  answer,    \* answer[k]: lines of the answer for a kind of media
  selected,  \* selected[k]: the codec the answerer selected
  read       \* read[k]: the codec the offerer found in the answer

vars == <<offer, answer, selected, read>>

Kind == {"audio", "video"}
Codec(name, prio, rate) == [name |-> name, prio |-> prio, rate |-> rate, payload |-> 0]

\* DefaultCapabilities.
DefaultCapabilities ==
  [audio |-> <<Codec("opus", 100, 48000), Codec("PCMU", 50, 8000), Codec("PCMA", 50, 8000)>>,
   video |-> <<Codec("VP9", 100, 90000), Codec("VP8", 90, 90000), Codec("H264", 70, 90000),
               Codec("AV1", 60, 90000)>>]

isVideoCodec(name) == name \in {"VP8", "VP9", "H264", "AV1"}
parseUint8(n) == IF n \in 0 .. 255 THEN n ELSE 0

\* A line without a clock rate is no codec; a name that is unknown is audio.
parseRTPMap(line) ==
  [name |-> line.name, kind |-> IF isVideoCodec(line.name) THEN "video" ELSE "audio",
   rate |-> line.rate, payload |-> parseUint8(line.payload)]

\* parseAudioCodecs and parseVideoCodecs: the codecs of a kind, by their lines.
parseCodecs(k, sdp) ==
  LET good == {i \in DOMAIN sdp : sdp[i].rate # 0 /\ parseRTPMap(sdp[i]).kind = k}
  IN  [i \in good |-> parseRTPMap(sdp[i])]

None == [name |-> "none", prio |-> 0, rate |-> 0, payload |-> 0]

MutantSelectBestCodec(k, remote) ==
  LET local == DefaultCapabilities[k]
      common == {p \in (DOMAIN remote) \X (DOMAIN local) : local[p[2]].name = remote[p[1]].name}
      best == CHOOSE p \in common : \A q \in common : p[1] <= q[1]
  IN  IF common = {} THEN None ELSE [local[best[2]] EXCEPT !.payload = remote[best[1]].payload]

\* selectBestAudioCodec and selectBestVideoCodec: the local codecs by
\* priority, those of equal priority in their order, and for each the lines of
\* the offer in theirs.
selectBestCodec(k, remote) ==
  LET local == DefaultCapabilities[k]
      common == {p \in (DOMAIN local) \X (DOMAIN remote) : local[p[1]].name = remote[p[2]].name}
      Before(p, q) == \/ local[p[1]].prio > local[q[1]].prio
                      \/ local[p[1]].prio = local[q[1]].prio /\ p[1] < q[1]
                      \/ p[1] = q[1] /\ p[2] <= q[2]
      best == CHOOSE p \in common : \A q \in common : Before(p, q)
  IN  IF common = {} THEN None ELSE [local[best[1]] EXCEPT !.payload = remote[best[2]].payload]

MutantGenerateAnswer(codec) == <<[name |-> codec.name, rate |-> codec.rate, payload |-> 111]>>

\* generateAudioAnswer and generateVideoAnswer.
generateAnswer(codec) == <<[name |-> codec.name, rate |-> codec.rate, payload |-> codec.payload]>>

-----------------------------------------------------------------------------
Line == [name : Name, rate : {0, 8000}, payload : Payload]

Init ==
  /\ offer = <<>>
  /\ answer = [k \in Kind |-> <<>>]
  /\ selected = [k \in Kind |-> None] /\ read = [k \in Kind |-> None]

\* The offerer adds a line, until there is an answer.
AddLine(line) ==
  /\ Len(offer) < MaxLines /\ \A k \in Kind : answer[k] = <<>>
  /\ offer' = Append(offer, line)
  /\ UNCHANGED <<answer, selected, read>>

\* NegotiateAudio and NegotiateVideo of the answerer; without a common codec
\* there is no answer.
Negotiate(k) ==
  LET codec == selectBestCodec(k, parseCodecs(k, offer))
  IN  /\ answer[k] = <<>> /\ codec # None
      /\ selected' = [selected EXCEPT ![k] = codec]
      /\ answer' = [answer EXCEPT ![k] = generateAnswer(codec)]
      /\ UNCHANGED <<offer, read>>

\* The offerer reads the answer by the same functions.
ReadAnswer(k) ==
  /\ answer[k] # <<>> /\ read[k] = None
  /\ read' = [read EXCEPT ![k] = selectBestCodec(k, parseCodecs(k, answer[k]))]
  /\ UNCHANGED <<offer, answer, selected>>

Next ==
  \/ \E line \in Line : AddLine(line)
  \/ \E k \in Kind : Negotiate(k) \/ ReadAnswer(k)

Spec == Init /\ [][Next]_vars

-----------------------------------------------------------------------------
\* What is selected is of its kind and offered in a line with a clock rate,
\* has the payload type of the first such line, and no other codec that was
\* offered goes before it (selectBestAudioCodec, selectBestVideoCodec).
BestCommonCodec ==
  \A k \in Kind : selected[k] # None =>
    LET Lines(name) == {i \in DOMAIN offer : offer[i].rate # 0 /\ offer[i].name = name}
        mine == Lines(selected[k].name)
    IN  /\ \E i \in mine : /\ \A j \in mine : i <= j
                           /\ selected[k].payload = parseUint8(offer[i].payload)
        /\ \A i \in DOMAIN DefaultCapabilities[k] :
             LET c == DefaultCapabilities[k][i]
             IN  Lines(c.name) # {} => c.prio <= selected[k].prio

\* The offerer finds in the answer the codec and the payload type that were
\* selected (generateAudioAnswer, generateVideoAnswer, parseRTPMap).
AnswerAgrees == \A k \in Kind : read[k] # None => read[k] = selected[k]

\* Both sides use the best codec both have (codec.go).
CodecsAgreed == BestCommonCodec /\ AnswerAgrees
=============================================================================
