------------------------- MODULE ExperimentalCodecs -------------------------
(***************************************************************************)
(* The two codecs of the experimental generation 0: "B0", the records of   *)
(* its synchronization engine (crates/bempic-sync/src/lib.rs), and the     *)
(* message representation (crates/bempic-codec/src/lib.rs) with the        *)
(* validation of the application model.  A character is an octet below 128.*)
(***************************************************************************)
EXTENDS RecordCodec

CONSTANTS
    MaxShortTextOctets, MaxBodyOctets, MaxRecipients, MaxAttachments
                                \* named as in bempic-model

ASSUME MessageAssumption ==
    /\ MaxShortTextOctets \in 1 .. (Pow256[Width.u16] - 2)
    /\ MaxBodyOctets \in Nat /\ MaxBodyOctets < Pow256[Width.u32]
    /\ {MaxRecipients, MaxAttachments} \subseteq 1 .. 255

---------------------------------------------------------------------------
(* B0: magic, kind, the length of the payload in a u16, the payload.       *)

ExperimentalMagic == <<66, 48>>
ExperimentalKinds ==
    <<"CAPABILITIES", "SUMMARY", "OFFER", "REQUEST", "DATA", "RECEIPT">>
ExperimentalEnvelope == 2 + 1 + Width.u16

RepresentationKinds == {1, 2}       \* Message, Binary
ReceiptStages == {1, 2, 3, 4, 255}

\* The bodies of the operations, by tag: what the types of the code hold.
ExperimentalBodies ==
    << [encoding_generation : Octet, max_record_size : U16, features : Octet],
       [item_count : U64, digest : Id16],
       [representation_id : Id16, kind : RepresentationKinds, size : U64, digest : Id,
        schema_fingerprint : Id16],
       [representation_id : Id16, offset : U64, max_payload_bytes : U32],
       [representation_id : Id16, offset : U64, payload : Seq(Octet)],
       [representation_id : Id16, stage : ReceiptStages, digest : Id] >>

IsExperimental(op) ==
    /\ op = [kind |-> op.kind, body |-> op.body]
    /\ \E tag \in DOMAIN ExperimentalKinds :
          op.kind = ExperimentalKinds[tag] /\ op.body \in ExperimentalBodies[tag]

\* The payload a kind must have: for DATA, without the octets of its range.
FixedPayload ==
    << 1 + Width.u16 + 1,
       Width.u64 + Width.id16,
       Width.id16 + 1 + Width.u64 + Width.id + Width.id16,
       Width.id16 + Width.u64 + Width.u32,
       Width.id16 + Width.u64,
       Width.id16 + 1 + Width.id >>

ExperimentalTag(kind) ==
    CHOOSE i \in DOMAIN ExperimentalKinds : ExperimentalKinds[i] = kind

ExperimentalPayloadSize(op) ==
    FixedPayload[ExperimentalTag(op.kind)]
      + IF op.kind = "DATA" THEN Len(op.body.payload) ELSE 0

\* What the types of the code hold, and the one error of envelope.
ExperimentalEncodable(op) ==
    /\ op.kind = "OFFER" => op.body.kind \in RepresentationKinds
    /\ op.kind = "RECEIPT" => op.body.stage \in ReceiptStages
    /\ ExperimentalPayloadSize(op) < Pow256[Width.u16]

ExperimentalSize(op) == ExperimentalEnvelope + ExperimentalPayloadSize(op)

\* Operation::encode.
ExperimentalPayload(op) ==
    LET v == op.body
    IN  CASE op.kind = "CAPABILITIES" ->
                <<v.encoding_generation>> \o PutU16(v.max_record_size) \o <<v.features>>
          [] op.kind = "SUMMARY" -> PutU64(v.item_count) \o PutId16(v.digest)
          [] op.kind = "OFFER" ->
                PutId16(v.representation_id) \o <<v.kind>> \o PutU64(v.size)
                  \o PutId(v.digest) \o PutId16(v.schema_fingerprint)
          [] op.kind = "REQUEST" ->
                PutId16(v.representation_id) \o PutU64(v.offset) \o PutU32(v.max_payload_bytes)
          [] op.kind = "DATA" ->
                PutId16(v.representation_id) \o PutU64(v.offset) \o v.payload
          [] op.kind = "RECEIPT" ->
                PutId16(v.representation_id) \o <<v.stage>> \o PutId(v.digest)

ExperimentalEncode(op) ==
    LET payload == ExperimentalPayload(op)
    IN  ExperimentalMagic \o <<ExperimentalTag(op.kind)>> \o PutU16(Len(payload)) \o payload


\* The fixed fields of each kind, as Operation::decode reads them.
TakeExperimental(w) ==
    << TakeFields(<<<<"encoding_generation", TakeU8(w)>>, <<"max_record_size", TakeU16(w)>>,
                    <<"features", TakeU8(w)>>>>),
       TakeFields(<<<<"item_count", TakeU64(w)>>, <<"digest", TakeId16(w)>>>>),
       TakeFields(<<<<"representation_id", TakeId16(w)>>,
                    <<"kind", Checked(TakeU8(w), RepresentationKinds)>>,
                    <<"size", TakeU64(w)>>, <<"digest", TakeId(w)>>,
                    <<"schema_fingerprint", TakeId16(w)>>>>),
       TakeFields(<<<<"representation_id", TakeId16(w)>>, <<"offset", TakeU64(w)>>,
                    <<"max_payload_bytes", TakeU32(w)>>>>),
       TakeFields(<<<<"representation_id", TakeId16(w)>>, <<"offset", TakeU64(w)>>,
                    <<"payload", TakeExactly(w, Len(w) - ExperimentalEnvelope - FixedPayload[5])>>>>),
       TakeFields(<<<<"representation_id", TakeId16(w)>>,
                    <<"stage", Checked(TakeU8(w), ReceiptStages)>>, <<"digest", TakeId(w)>>>>) >>

\* The envelope, and a length its kind may have.
ExperimentalEnvelopeHolds(w) ==
    /\ Len(w) >= ExperimentalEnvelope
    /\ <<w[1], w[2]>> = ExperimentalMagic
    /\ TakeU16(w)[4] = Got(Len(w) - ExperimentalEnvelope, ExperimentalEnvelope + 1)
    /\ w[3] \in DOMAIN ExperimentalKinds
    /\ LET length == Len(w) - ExperimentalEnvelope
       IN  IF ExperimentalKinds[w[3]] = "DATA"
           THEN length >= FixedPayload[w[3]]
           ELSE length = FixedPayload[w[3]]

\* Operation::decode: a sequence of the one operation, or << >> for an error.
ExperimentalDecode(w) ==
    IF ~ExperimentalEnvelopeHolds(w) THEN << >>
    ELSE Then(TakeExperimental(w)[w[3]][ExperimentalEnvelope + 1], LAMBDA body, next :
            <<[kind |-> ExperimentalKinds[w[3]], body |-> body]>>)

---------------------------------------------------------------------------
(* The message representation.                                             *)

MessageMagic == <<66, 77, 83, 71, 48>>

Ascii == 0 .. 127

\* The length that stands for an absent text.
NullLength == Pow256[Width.u16] - 1

AttachmentDescriptor ==
    [ part_id : Id16, filename : Seq(Ascii), media_type : Seq(Ascii),
      representation_id : Id16, size : U64, digest : Id ]

Message ==
    [ logical_id : Id16, created_at : U64, sender : Seq(Ascii),
      recipients : Seq(Seq(Ascii)), subject : Option(Seq(Ascii)), body : Seq(Ascii),
      attachments : Seq(AttachmentDescriptor) ]

ValidShort(text) == Len(text) <= MaxShortTextOctets
ValidRequiredShort(text) == text # << >> /\ ValidShort(text)

\* AttachmentDescriptor::validate.
ValidAttachment(a) == ValidRequiredShort(a.filename) /\ ValidRequiredShort(a.media_type)

\* Message::validate.
ValidMessage(m) ==
    /\ ValidRequiredShort(m.sender)
    /\ Len(m.recipients) \in 1 .. MaxRecipients
    /\ \A i \in DOMAIN m.recipients : ValidRequiredShort(m.recipients[i])
    /\ \A text \in ToSet(m.subject) : ValidShort(text)
    /\ Len(m.body) <= MaxBodyOctets
    /\ Len(m.attachments) <= MaxAttachments
    /\ \A i, j \in DOMAIN m.attachments :
          m.attachments[i].part_id = m.attachments[j].part_id => i = j
    /\ \A i \in DOMAIN m.attachments : ValidAttachment(m.attachments[i])

ShortSize(text) == Width.u16 + Len(text)

\* CodecBounds::max_encoded_size.
MaxMessageSize ==
    LET base == Len(MessageMagic) + Width.id16 + Width.u64 + Width.u16 + 1 + Width.u16
                  + Width.u32 + 1
        attachment == Width.id16 + 2 * (Width.u16 + MaxShortTextOctets)
                        + Width.id16 + Width.u64 + Width.id
    IN  base + 2 * MaxShortTextOctets
          + MaxRecipients * (Width.u16 + MaxShortTextOctets)
          + MaxBodyOctets + MaxAttachments * attachment

NullableSize(text) == Width.u16 + IF text = << >> THEN 0 ELSE Len(text[1])

AttachmentSize(a) ==
    Width.id16 + ShortSize(a.filename) + ShortSize(a.media_type)
      + Width.id16 + Width.u64 + Width.id

\* exact_encoded_size.
MessageSize(m) ==
    Len(MessageMagic) + Width.id16 + Width.u64 + ShortSize(m.sender)
      + (1 + SumOver(ShortSize, m.recipients)) + NullableSize(m.subject)
      + (Width.u32 + Len(m.body)) + (1 + SumOver(AttachmentSize, m.attachments))

\* put_short.
PutShort(text) == PutOctets(text)

PutNullable(text) == IF text = << >> THEN PutU16(NullLength) ELSE PutShort(text[1])

PutAttachment(a) ==
    PutId16(a.part_id) \o PutShort(a.filename) \o PutShort(a.media_type)
      \o PutId16(a.representation_id) \o PutU64(a.size) \o PutId(a.digest)

PutMessage(m) ==
    PutId16(m.logical_id) \o PutU64(m.created_at) \o PutShort(m.sender)
      \o PutList(PutShort, m.recipients) \o PutNullable(m.subject)
      \o (PutU32(Len(m.body)) \o m.body) \o PutList(PutAttachment, m.attachments)

\* ExperimentalCodecV0::encode, of a valid message.
MessageEncode(m) == MessageMagic \o PutMessage(m)

\* Reader::short, nullable and not.
TakeNullable(w) ==
    [at \in Positions |->
        Then(TakeU16(w)[at], LAMBDA length, from :
            IF length = NullLength THEN Got(<< >>, from)
            ELSE Then(Take(w, from, length), LAMBDA text, next :
                    IF text \in Seq(Ascii) THEN Got(<<text>>, next) ELSE << >>))]

TakeShort(w) ==
    [at \in Positions |->
        Then(TakeNullable(w)[at], LAMBDA option, next :
            IF option = << >> THEN << >> ELSE Got(option[1], next))]

TakeAttachment(w) ==
    TakeFields(
        << <<"part_id", TakeId16(w)>>, <<"filename", TakeShort(w)>>,
           <<"media_type", TakeShort(w)>>, <<"representation_id", TakeId16(w)>>,
           <<"size", TakeU64(w)>>, <<"digest", TakeId(w)>> >>)

TakeMessage(w) ==
    TakeFields(
        << <<"logical_id", TakeId16(w)>>, <<"created_at", TakeU64(w)>>,
           <<"sender", TakeShort(w)>>,
           <<"recipients", TakeList(w, TakeShort(w), 1 .. MaxRecipients)>>,
           <<"subject", TakeNullable(w)>>,
           <<"body", Checked(TakeOctets(w, TakeU32(w), MaxBodyOctets), Seq(Ascii))>>,
           <<"attachments", TakeList(w, TakeAttachment(w), 0 .. MaxAttachments)>> >>)

\* ExperimentalCodecV0::decode: the one message, or << >> for an error.
MessageDecode(w) ==
    IF \/ Len(w) > MaxMessageSize
       \/ Len(w) < Len(MessageMagic)
       \/ SubSeq(w, 1, Len(MessageMagic)) # MessageMagic
    THEN << >>
    ELSE Then(TakeMessage(w)[Len(MessageMagic) + 1], LAMBDA message, next :
            IF next = Len(w) + 1 /\ ValidMessage(message) THEN <<message>> ELSE << >>)

=============================================================================
