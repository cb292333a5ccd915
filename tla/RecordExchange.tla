--------------------------- MODULE RecordExchange ---------------------------
(***************************************************************************)
(* One peer encodes records, the other decodes what arrives, with one of   *)
(* the four codecs of the repository.  Each call of the compact codec is   *)
(* given a checkpoint by its caller, so the two peers' checkpoints may     *)
(* differ, and the extensions the receiver supports need not be those the  *)
(* sender uses; the codecs of generation 0 know neither.  On the way the   *)
(* octets may be cut short, lengthened or altered: no codec has a checksum,*)
(* so what is altered may decode, but only to a record it is the image of. *)
(***************************************************************************)
EXTENDS CompactCodec, ExperimentalCodecs

CONSTANTS
    Codecs,                     \* a subset of {"B1", "compact", "B0", "message"}
    Records,                    \* what a sender may be asked to encode with B1 or compact
    Operations,                 \* with B0
    Messages,                   \* with the message codec
    Checkpoints,                \* the summaries a caller may hold
    SupportedSets,              \* the extensions a receiver may support
    FaultOctets                 \* what an octet may be altered to, its neighbours apart

\* What the callers hold is typed; a checkpoint was a valid SUMMARY.
ASSUME CallersAssumption ==
    /\ Codecs \subseteq {"B1", "compact", "B0", "message"}
    /\ \A r \in Records : IsRecord(r)
    /\ \A op \in Operations : IsExperimental(op)
    /\ Messages \subseteq Message
    /\ \A s \in Checkpoints : s \in Summary /\ Encodable(Plain("SUMMARY", s))

VARIABLES
    sent,                       \* << >>, or <<the record encoded>>
    wire,                       \* the octets on their way
    intact,                     \* nothing happened to them
    call,                       \* the codec and the two callers' checkpoints
    result                      \* what the receiver did: see Deliver

vars == <<sent, wire, intact, call, result>>

Caches == {<< >>} \cup {<<summary>> : summary \in Checkpoints}

\* Only the compact codec takes a checkpoint.
Calls ==
    { c \in [codec : Codecs, sender : Caches, receiver : Caches] :
        c.codec # "compact" => c.sender = << >> /\ c.receiver = << >> }

Repertoire(codec) ==
    CASE codec = "B0" -> {Plain(op.kind, op.body) : op \in Operations}
      [] codec = "message" -> {Plain("MESSAGE", m) : m \in Messages}
      [] OTHER -> Records

Supports(codec) == IF codec \in {"B0", "message"} THEN {{}} ELSE SupportedSets

Waiting == [done |-> FALSE, supported |-> {}, record |-> << >>]

EncodableBy(codec, r, cache) ==
    CASE codec = "B1" -> Encodable(r)
      [] codec = "compact" -> CompactEncodable(r, cache)
      [] codec = "B0" -> ExperimentalEncodable(r.operation)
      [] codec = "message" -> ValidMessage(r.operation.body)

SizeBy(codec, r, cache) ==
    CASE codec = "B1" -> ExactEncodedSize(r)
      [] codec = "compact" -> CompactSize(r, cache)
      [] codec = "B0" -> ExperimentalSize(r.operation)
      [] codec = "message" -> MessageSize(r.operation.body)

MaximumBy(codec, kind) ==
    CASE codec = "B1" -> DeclaredMaximum(kind)
      [] codec = "compact" -> CompactDeclaredMaximum(kind)
      [] codec = "B0" -> ExperimentalEnvelope + Pow256[Width.u16] - 1
      [] codec = "message" -> MaxMessageSize

EncodeBy(codec, r, cache) ==
    CASE codec = "B1" -> Encode(r)
      [] codec = "compact" -> CompactEncode(r, cache)
      [] codec = "B0" -> ExperimentalEncode(r.operation)
      [] codec = "message" -> MessageEncode(r.operation.body)

DecodeBy(codec, octets, supported, cache) ==
    CASE codec = "B1" -> Decode(octets, supported)
      [] codec = "compact" -> CompactDecode(octets, supported, cache)
      [] codec = "B0" ->
            LET got == ExperimentalDecode(octets)
            IN  [i \in DOMAIN got |-> Plain(got[i].kind, got[i].body)]
      [] codec = "message" ->
            LET got == MessageDecode(octets)
            IN  [i \in DOMAIN got |-> Plain("MESSAGE", got[i])]

Init ==
    /\ sent = << >>
    /\ wire = << >>
    /\ intact = TRUE
    /\ call \in Calls
    /\ result = Waiting

\* A record the encoder refuses is never on the wire.
Send(r) ==
    /\ sent = << >>
    /\ EncodableBy(call.codec, r, call.sender)
    /\ sent' = <<r>>
    /\ wire' = EncodeBy(call.codec, r, call.sender)
    /\ UNCHANGED <<intact, call, result>>

InFlight == sent # << >> /\ ~result.done /\ intact

Alter ==
    /\ InFlight
    /\ \E i \in DOMAIN wire :
          \E octet \in ({wire[i] - 1, wire[i] + 1} \cup (FaultOctets \ {wire[i]})) \cap (0 .. 255) :
             wire' = [wire EXCEPT ![i] = octet]
    /\ intact' = FALSE
    /\ UNCHANGED <<sent, call, result>>

Truncate ==
    /\ InFlight
    /\ \E n \in 0 .. (Len(wire) - 1) : wire' = SubSeq(wire, 1, n)
    /\ intact' = FALSE
    /\ UNCHANGED <<sent, call, result>>

\* One octet more, inside the length the envelope declares or after it.
Lengthen ==
    /\ InFlight
    /\ \E octet \in {0, 1, 255} :
          \/ wire' = Append(wire, octet)
          \/ /\ call.codec = "B1"
             /\ wire' = [Append(wire, octet) EXCEPT ![EnvelopeOctets] = (@ + 1) % 256]
          \/ /\ call.codec = "B0"
             /\ wire' = [Append(wire, octet) EXCEPT ![ExperimentalEnvelope] = (@ + 1) % 256]
          \/ /\ call.codec = "compact"
             /\ wire' = [Append(wire, octet) EXCEPT ![2] = (@ + 1) % 256]
          \* a length that takes an octet more than it needs
          \/ /\ call.codec = "compact"
             /\ wire' = <<wire[1], 128 + (wire[2] % 128), 0>> \o SubSeq(wire, 3, Len(wire))
    /\ intact' = FALSE
    /\ UNCHANGED <<sent, call, result>>

Deliver(supported) ==
    /\ sent # << >>
    /\ ~result.done
    /\ result' = [done |-> TRUE, supported |-> supported,
                  record |-> DecodeBy(call.codec, wire, supported, call.receiver)]
    /\ UNCHANGED <<sent, wire, intact, call>>

\* The caller has its result; the next call starts with nothing on the way.
Finish ==
    /\ result.done
    /\ sent' = << >>
    /\ wire' = << >>
    /\ intact' = TRUE
    /\ result' = Waiting
    /\ UNCHANGED call

Next ==
    \/ \E r \in Repertoire(call.codec) : Send(r)
    \/ Alter
    \/ Truncate
    \/ Lengthen
    \/ \E supported \in Supports(call.codec) : Deliver(supported)
    \/ Finish

Spec == Init /\ [][Next]_vars

---------------------------------------------------------------------------

\* Every record a decoder lets through is one the codec accepts for encoding:
\* damage never produces a record outside the operations' declared bounds.
TypeOK ==
    /\ call \in Calls
    /\ \A i \in DOMAIN wire : wire[i] \in 0 .. 255
    /\ \A r \in ToSet(result.record) : EncodableBy(call.codec, r, call.receiver)

\* The arithmetic of exact_encoded_size, which admission control charges a
\* budget with before any octet exists, is the length of what is then encoded.
SizeIsExact ==
    sent # << >> /\ intact => Len(wire) = SizeBy(call.codec, sent[1], call.sender)

\* The maximum a codec declares for a kind of record, from which buffers and
\* profiles are dimensioned, bounds every record the codec lets through.
DeclaredMaximumHolds ==
    \A r \in ToSet(sent) \cup ToSet(result.record) :
        EncodableBy(call.codec, r, call.sender) =>
            SizeBy(call.codec, r, call.sender) <= MaximumBy(call.codec, r.operation.kind)

\* What the receiver decodes from octets nothing happened to is the record
\* that was sent without the extensions it does not know, whatever the two
\* callers' checkpoints are: a stale checkpoint refuses, it never substitutes.
NeverAnotherRecord ==
    result.done /\ intact =>
        \A r \in ToSet(result.record) :
            r = [sent[1] EXCEPT !.extensions =
                    Kept(@, result.supported)]

Known(supported) == \A x \in ToSet(sent[1].extensions) : x.id \in supported

\* A record whose extensions the receiver knows is accepted when the callers
\* hold the same checkpoint: no encoder produces what its own decoder calls
\* noncanonical.
SameContextAccepts ==
    result.done /\ intact /\ call.sender = call.receiver /\ Known(result.supported) =>
        result.record # << >>

\* One image per record: octets that decode, with every extension known, are
\* exactly the octets the receiver would encode that record to.
OneImagePerRecord ==
    sent # << >> =>
        \A r \in ToSet(DecodeBy(call.codec, wire, U32, call.receiver)) :
            EncodeBy(call.codec, r, call.receiver) = wire

\* What the codec's documentation says: an optional extension the receiver
\* does not know is skipped, and the rest of the record is accepted.
UnknownOptionalSkipped ==
    result.done /\ intact /\ call.sender = call.receiver
      /\ (\A x \in ToSet(sent[1].extensions) : x.critical => x.id \in result.supported) =>
        result.record # << >>

=============================================================================
