---------------------------- MODULE RecordCodec ----------------------------
(***************************************************************************)
(* The record codec of generation 0.1, "B1" (crates/bempic-sync/src/v01.rs):*)
(* the validation of the seven operations, the arithmetic size of a record,*)
(* its octets, and the strict decoder.  The three are written separately   *)
(* in the code and separately here; what relates them is checked and, in   *)
(* RecordExchange_proofs, proved.                                          *)
(***************************************************************************)
EXTENDS Negotiation, WirePrimitives

CONSTANTS
    MaxExtensionValueOctets, MaxOfferDescriptors, MaxRequestSelections,
    MaxCollectionEntries, MaxFailureDetailOctets, MaxFailureScopeOctets,
    MaxCodecParameterOctets,    \* named as in the code
    MaxRecordOctets             \* MAX_EXPERIMENTAL_RECORD_OCTETS

\* The literals of the code: counts are written in one octet, lengths in the
\* fields that hold them.
ASSUME BoundsAssumption ==
    /\ MaxCapabilityProtocols <= 255
    /\ MaxCapabilitySchemas <= 255
    /\ MaxCapabilityCodecs <= 255
    /\ MaxExtensions <= 255
    /\ MaxOfferDescriptors \in Octet
    /\ MaxRequestSelections \in Octet
    /\ MaxFailureScopeOctets \in Octet
    /\ MaxExtensionValueOctets \in U16
    /\ MaxFailureDetailOctets \in U16
    /\ MaxCodecParameterOctets \in U16
    /\ MaxRecordOctets \in U32
    /\ MaxCollectionEntries \in Nat

Kinds == <<"CAPABILITIES", "SUMMARY", "OFFER", "REQUEST", "DATA", "RECEIPT", "FAILURE">>
Tag(kind) == CHOOSE i \in DOMAIN Kinds : Kinds[i] = kind

OfferModes == <<"Delta", "Full">>
ReceiptStatuses == <<"RepresentationCommitted", "ApplicationAccepted",
                     "ApplicationDelivered", "ApplicationRejected">>
FailureCodes == <<"UnsupportedVersion", "UnsupportedSchema", "UnsupportedCodec",
                  "UnsupportedCriticalExtension", "MalformedOperation",
                  "LimitExceeded", "UnknownObject", "MetadataConflict",
                  "RangeInvalid", "IntegrityFailure", "StorageFailure",
                  "PolicyRejected", "CheckpointUnknown">>

EnvelopeOctets == 2 + 1 + Width.u32

---------------------------------------------------------------------------
(* What the types of the code hold, valid or not.  A cursor is             *)
(* [sequence |-> n] in delta mode, an entry key in full mode; a REQUEST is *)
(* for a page of descriptors or for data.                                  *)

DeltaCursor == [sequence : U64]
FullCursor == [object_id : Id, part_id : U32, representation_id : Id]
Cursor == DeltaCursor \cup FullCursor

CollectionEntry ==
    [ sequence : U64, object_id : Id, part_id : U32, representation_id : Id,
      schema_fingerprint : Id, codec_id : U32, codec_revision : U32,
      codec_parameters : Seq(Octet), encoded_length : U64,
      decoded_length : Option(U64), content_digest : Id,
      usefulness_expiry : Option(U64) ]

WireGeneration == [major : U16, minor : U16]
WirePreference == [codec_id : U32, revision : U32, schema_fingerprint : Id]
WireDeclaration == [id : U32, critical : BOOLEAN]

WireCapabilities ==
    [ protocol_generations : Seq(WireGeneration), schema_fingerprints : Seq(Id),
      codec_preferences : Seq(WirePreference), max_operation_octets : U32,
      max_data_payload_octets : U64, receipt_levels : SUBSET (0 .. 7),
      security_class : ToSet(SecurityClasses), extensions : Seq(WireDeclaration) ]

Summary ==
    [collection_id : Id, generation : U64, item_count : U64, collection_digest : Id]

Offer ==
    [ collection_id : Id, mode : ToSet(OfferModes), base_generation : U64,
      target_generation : U64, first_cursor : Cursor, last_cursor : Cursor,
      descriptors : Seq(CollectionEntry), more : BOOLEAN ]

PageRequest ==
    [ collection_id : Id, target_generation : U64, mode : ToSet(OfferModes),
      committed_cursor : Cursor, page_entry_limit : Octet ]

Selection ==
    [representation_id : Id, durable_prefix_offset : U64, max_desired_payload_octets : U64]

DataRequest ==
    [ budget_id : Id16, max_total_bempic_bytes : U64, max_sender_to_receiver_bytes : U64,
      max_receiver_to_sender_bytes : U64, selections : Seq(Selection) ]

Data == [representation_id : Id, offset : U64, payload : Seq(Octet)]

Receipt ==
    [ subject_id : Id, status : ToSet(ReceiptStatuses), verified_digest : Option(Id),
      idempotency_id : Id16, reason : Option(Seq(Octet)) ]

Failure ==
    [ code : ToSet(FailureCodes), scope : Seq(Octet), retryable : BOOLEAN,
      detail : Option(Seq(Octet)) ]

\* The bodies of the operations, by tag.
Bodies ==
    << WireCapabilities, Summary, Offer, PageRequest \cup DataRequest, Data, Receipt, Failure >>

Extension == [id : U32, critical : BOOLEAN, value : Seq(Octet)]

\* Record.
IsRecord(r) ==
    /\ r = [operation  |-> [kind |-> r.operation.kind, body |-> r.operation.body],
            extensions |-> r.extensions]
    /\ \E tag \in DOMAIN Kinds :
          r.operation.kind = Kinds[tag] /\ r.operation.body \in Bodies[tag]
    /\ r.extensions \in Seq(Extension)

---------------------------------------------------------------------------
(* Validation.                                                             *)

Key(entry) == <<entry.object_id, entry.part_id, entry.representation_id>>

KeyBefore(a, b) ==
    \E k \in 1 .. 3 : a[k] < b[k] /\ \A m \in 1 .. (k - 1) : a[m] = b[m]

IsDelta(cursor) == "sequence" \in DOMAIN cursor

CursorOf(mode, entry) ==
    IF mode = "Delta"
    THEN [sequence |-> entry.sequence]
    ELSE [object_id |-> entry.object_id, part_id |-> entry.part_id,
          representation_id |-> entry.representation_id]

\* CollectionEntry::validate and RepresentationDescriptor::validate.
ValidEntry(e) ==
    /\ e.sequence # 0
    /\ Len(e.codec_parameters) <= MaxCodecParameterOctets
    /\ e.encoded_length <= MaxRepresentationOctets
    /\ \A n \in ToSet(e.decoded_length) : n <= MaxRepresentationOctets

\* Offer::validate.
ValidOffer(v) ==
    LET entries == v.descriptors
    IN  /\ Len(entries) \in 1 .. MaxOfferDescriptors
        /\ v.base_generation <= v.target_generation
        /\ \A i \in DOMAIN entries :
              ValidEntry(entries[i]) /\ entries[i].sequence <= v.target_generation
        /\ \A i, j \in DOMAIN entries : i # j =>
              /\ entries[i].sequence # entries[j].sequence
              /\ Key(entries[i]) # Key(entries[j])
        /\ \A i \in 1 .. (Len(entries) - 1) :
              \/ v.mode = "Delta" /\ entries[i].sequence < entries[i + 1].sequence
              \/ v.mode = "Full" /\ KeyBefore(Key(entries[i]), Key(entries[i + 1]))
        /\ v.first_cursor = CursorOf(v.mode, Head(entries))
        /\ v.last_cursor = CursorOf(v.mode, Last(entries))

ValidText(text, maximum) ==
    \A t \in ToSet(text) : Len(t) <= maximum /\ t \in Seq(Printable)

ValidPageRequest(v) ==
    /\ v.page_entry_limit \in 1 .. MaxOfferDescriptors
    /\ IsDelta(v.committed_cursor) <=> v.mode = "Delta"

ValidDataRequest(v) ==
    /\ Len(v.selections) \in 1 .. MaxRequestSelections
    /\ v.max_total_bempic_bytes > 0
    /\ v.max_sender_to_receiver_bytes <= v.max_total_bempic_bytes
    /\ v.max_receiver_to_sender_bytes <= v.max_total_bempic_bytes
    /\ \A i \in DOMAIN v.selections :
          /\ v.selections[i].max_desired_payload_octets \in 1 .. MaxRepresentationOctets
          /\ v.selections[i].durable_prefix_offset <= MaxRepresentationOctets
    /\ \A i, j \in DOMAIN v.selections : i # j =>
          v.selections[i].representation_id # v.selections[j].representation_id

\* Operation::validate.
ValidOperation(op) ==
    LET v == op.body
    IN  CASE op.kind = "CAPABILITIES" -> ValidCapabilities(v)
          [] op.kind = "SUMMARY" ->
                v.item_count <= MaxCollectionEntries /\ v.item_count <= v.generation
          [] op.kind = "OFFER" -> ValidOffer(v)
          [] op.kind = "REQUEST" ->
                IF "mode" \in DOMAIN v THEN ValidPageRequest(v) ELSE ValidDataRequest(v)
          [] op.kind = "DATA" ->
                /\ v.payload # << >>
                /\ v.offset + Len(v.payload) <= MaxRepresentationOctets
          [] op.kind = "RECEIPT" ->
                /\ ValidText(v.reason, MaxFailureDetailOctets)
                /\ v.status = "RepresentationCommitted" => v.verified_digest # << >>
          [] op.kind = "FAILURE" ->
                /\ Len(v.scope) <= MaxFailureScopeOctets
                /\ ValidText(v.detail, MaxFailureDetailOctets)

\* validate_record_extensions.
ValidExtensions(extensions) ==
    /\ Len(extensions) <= MaxExtensions
    /\ \A i \in DOMAIN extensions : Len(extensions[i].value) <= MaxExtensionValueOctets
    /\ \A i, j \in DOMAIN extensions : extensions[i].id = extensions[j].id => i = j

---------------------------------------------------------------------------
(* The arithmetic size, without encoding.                                  *)

CursorSize(cursor) ==
    1 + IF IsDelta(cursor) THEN Width.u64 ELSE Width.id + Width.u32 + Width.id

TextSize(text) == 1 + IF text = << >> THEN 0 ELSE Width.u16 + Len(text[1])

DescriptorSizeNoExpiry(e) ==
    Width.u64 + Width.id + Width.u32 + Width.id + Width.id + Width.u32 + Width.u32
      + (Width.u16 + Len(e.codec_parameters)) + Width.u64
      + (1 + Len(e.decoded_length) * Width.u64) + Width.id + 1

DescriptorSize(e) ==
    Width.u64 + Width.id + Width.u32 + Width.id + Width.id + Width.u32 + Width.u32
      + (Width.u16 + Len(e.codec_parameters)) + Width.u64
      + (1 + Len(e.decoded_length) * Width.u64) + Width.id + (1 + Len(e.usefulness_expiry) * Width.u64)

\* Operation::payload_size.
PayloadSize(op) ==
    LET v == op.body
    IN  CASE op.kind = "CAPABILITIES" ->
                (1 + Len(v.protocol_generations) * (Width.u16 + Width.u16))
                  + (1 + Len(v.schema_fingerprints) * Width.id)
                  + (1 + Len(v.codec_preferences) * (Width.u32 + Width.u32 + Width.id))
                  + Width.u32 + Width.u64 + 1 + 1
                  + (1 + Len(v.extensions) * (Width.u32 + 1))
          [] op.kind = "SUMMARY" -> Width.id + Width.u64 + Width.u64 + Width.id
          [] op.kind = "OFFER" ->
                Width.id + 1 + Width.u64 + Width.u64 + CursorSize(v.first_cursor)
                  + CursorSize(v.last_cursor)
                  + (1 + SumOver(DescriptorSize, v.descriptors)) + 1
          [] op.kind = "REQUEST" ->
                IF "mode" \in DOMAIN v
                THEN 1 + (Width.id + Width.u64 + 1 + CursorSize(v.committed_cursor) + 1)
                ELSE 1 + (Width.id16 + Width.u64 + Width.u64 + Width.u64
                            + (1 + Len(v.selections) * (Width.id + Width.u64 + Width.u64)))
          [] op.kind = "DATA" -> Width.id + Width.u64 + (Width.u32 + Len(v.payload))
          [] op.kind = "RECEIPT" ->
                Width.id + 1 + (1 + Len(v.verified_digest) * Width.id)
                  + Width.id16 + TextSize(v.reason)
          [] op.kind = "FAILURE" -> 1 + (1 + Len(v.scope)) + 1 + TextSize(v.detail)

ExtensionSize(x) == Width.u32 + 1 + (Width.u16 + Len(x.value))

ExtensionsSize(extensions) == 1 + SumOver(ExtensionSize, extensions)

\* Record::exact_encoded_size, and when it succeeds.
ExactEncodedSize(r) ==
    EnvelopeOctets + PayloadSize(r.operation) + ExtensionsSize(r.extensions)

Encodable(r) ==
    /\ ValidExtensions(r.extensions)
    /\ ValidOperation(r.operation)
    /\ ExactEncodedSize(r) <= MaxRecordOctets

\* The terms of maximum_size_analysis: every list, text and option as long as
\* it may be, and full cursors.
MaximumExtensions == 1 + MaxExtensions * (Width.u32 + 1 + Width.u16 + MaxExtensionValueOctets)

MaximumDescriptor ==
    4 * Width.u64 + 4 * Width.id + 3 * Width.u32 + Width.u16 + MaxCodecParameterOctets + 2

MaximumText == 1 + Width.u16 + MaxFailureDetailOctets

MaximumPayload(kind) ==
    CASE kind = "CAPABILITIES" ->
            1 + MaxCapabilityProtocols * 2 * Width.u16 + 1 + MaxCapabilitySchemas * Width.id
              + 1 + MaxCapabilityCodecs * (2 * Width.u32 + Width.id)
              + Width.u32 + Width.u64 + 2 + 1 + MaxExtensions * (Width.u32 + 1)
      [] kind = "SUMMARY" -> 2 * Width.id + 2 * Width.u64
      [] kind = "OFFER" ->
            Width.id + 1 + 2 * Width.u64 + 2 * (1 + 2 * Width.id + Width.u32)
              + 1 + MaxOfferDescriptors * MaximumDescriptor + 1
      [] kind = "REQUEST" ->
            1 + Width.id16 + 3 * Width.u64 + 1
              + MaxRequestSelections * (Width.id + 2 * Width.u64)
      [] kind = "RECEIPT" -> Width.id + 1 + 1 + Width.id + Width.id16 + MaximumText
      [] kind = "FAILURE" -> 1 + 1 + MaxFailureScopeOctets + 1 + MaximumText

\* The literals of the code: maximum_size_analysis takes a full cursor as the
\* longest cursor, and the longest request for data as the longest REQUEST.
ASSUME MaximumAssumption ==
    /\ Width.u64 <= 2 * Width.id + Width.u32
    /\ 4 + 3 * Width.id + Width.u64 + Width.u32 <= MaximumPayload("REQUEST")

\* declared_max_encoded_size.
DeclaredMaximum(kind) ==
    IF kind = "DATA" THEN MaxRecordOctets
    ELSE EnvelopeOctets + MaximumPayload(kind) + MaximumExtensions

---------------------------------------------------------------------------
(* The encoder.                                                            *)

MAGIC == <<66, 49>>

\* encode_cursor.
PutCursor(c) ==
    IF IsDelta(c)
    THEN <<0>> \o PutU64(c.sequence)
    ELSE <<1>> \o (PutId(c.object_id) \o PutU32(c.part_id) \o PutId(c.representation_id))

\* encode_descriptor.
PutDescriptor(e) ==
    PutU64(e.sequence) \o PutId(e.object_id) \o PutU32(e.part_id)
      \o PutId(e.representation_id) \o PutId(e.schema_fingerprint)
      \o PutU32(e.codec_id) \o PutU32(e.codec_revision)
      \o PutOctets(e.codec_parameters)
      \o PutU64(e.encoded_length) \o PutList(PutU64, e.decoded_length)
      \o PutId(e.content_digest) \o PutList(PutU64, e.usefulness_expiry)

PutGeneration(g) == PutU16(g.major) \o PutU16(g.minor)
PutPreference(p) == PutU32(p.codec_id) \o PutU32(p.revision) \o PutId(p.schema_fingerprint)
PutDeclaration(x) == PutU32(x.id) \o PutBool(x.critical)

PutSelection(s) ==
    PutId(s.representation_id) \o PutU64(s.durable_prefix_offset)
      \o PutU64(s.max_desired_payload_octets)

PutPageRequest(v) ==
    PutId(v.collection_id) \o PutU64(v.target_generation) \o PutEnum(OfferModes, v.mode)
      \o PutCursor(v.committed_cursor) \o <<v.page_entry_limit>>

PutDataRequest(v) ==
    PutId16(v.budget_id) \o PutU64(v.max_total_bempic_bytes)
      \o PutU64(v.max_sender_to_receiver_bytes) \o PutU64(v.max_receiver_to_sender_bytes)
      \o PutList(PutSelection, v.selections)

\* Operation::encode_payload.
EncodePayload(op) ==
    LET v == op.body
    IN  CASE op.kind = "CAPABILITIES" ->
                PutList(PutGeneration, v.protocol_generations)
                  \o PutList(PutId, v.schema_fingerprints)
                  \o PutList(PutPreference, v.codec_preferences)
                  \o PutU32(v.max_operation_octets) \o PutU64(v.max_data_payload_octets)
                  \o PutBits(v.receipt_levels) \o PutEnum(SecurityClasses, v.security_class)
                  \o PutList(PutDeclaration, v.extensions)
          [] op.kind = "SUMMARY" ->
                PutId(v.collection_id) \o PutU64(v.generation) \o PutU64(v.item_count)
                  \o PutId(v.collection_digest)
          [] op.kind = "OFFER" ->
                PutId(v.collection_id) \o PutEnum(OfferModes, v.mode)
                  \o PutU64(v.base_generation) \o PutU64(v.target_generation)
                  \o PutCursor(v.first_cursor) \o PutCursor(v.last_cursor)
                  \o PutList(PutDescriptor, v.descriptors) \o PutBool(v.more)
          [] op.kind = "REQUEST" ->
                IF "mode" \in DOMAIN v
                THEN <<0>> \o PutPageRequest(v)
                ELSE <<1>> \o PutDataRequest(v)
          [] op.kind = "DATA" ->
                PutId(v.representation_id) \o PutU64(v.offset)
                  \o (PutU32(Len(v.payload)) \o v.payload)
          [] op.kind = "RECEIPT" ->
                PutId(v.subject_id) \o PutEnum(ReceiptStatuses, v.status)
                  \o PutList(PutId, v.verified_digest)
                  \o PutId16(v.idempotency_id) \o PutText(v.reason)
          [] op.kind = "FAILURE" ->
                PutEnum(FailureCodes, v.code) \o (<<Len(v.scope)>> \o v.scope)
                  \o PutBool(v.retryable) \o PutText(v.detail)

PutExtension(x) == PutU32(x.id) \o PutBool(x.critical) \o PutOctets(x.value)

\* Record::encode, of an Encodable record.
Encode(r) ==
    MAGIC \o <<Tag(r.operation.kind)>> \o PutU32(ExactEncodedSize(r) - EnvelopeOctets)
      \o EncodePayload(r.operation) \o PutList(PutExtension, r.extensions)

---------------------------------------------------------------------------
(* The decoder, of the octets w.                                           *)

\* decode_cursor.
TakeCursor(w) ==
    TakeChoice(w,
        << TakeFields(<<<<"sequence", TakeU64(w)>>>>),
           TakeFields(<<<<"object_id", TakeId(w)>>, <<"part_id", TakeU32(w)>>,
                        <<"representation_id", TakeId(w)>>>>) >>)

\* decode_descriptor.
TakeDescriptor(w) ==
    TakeFields(
        << <<"sequence", TakeU64(w)>>, <<"object_id", TakeId(w)>>, <<"part_id", TakeU32(w)>>,
           <<"representation_id", TakeId(w)>>, <<"schema_fingerprint", TakeId(w)>>,
           <<"codec_id", TakeU32(w)>>, <<"codec_revision", TakeU32(w)>>,
           <<"codec_parameters", TakeOctets(w, TakeU16(w), MaxCodecParameterOctets)>>,
           <<"encoded_length", TakeU64(w)>>, <<"decoded_length", TakeOption(w, TakeU64(w))>>,
           <<"content_digest", TakeId(w)>>, <<"usefulness_expiry", TakeOption(w, TakeU64(w))>> >>)

TakeGeneration(w) == TakeFields(<<<<"major", TakeU16(w)>>, <<"minor", TakeU16(w)>>>>)

TakePreference(w) ==
    TakeFields(<<<<"codec_id", TakeU32(w)>>, <<"revision", TakeU32(w)>>,
                 <<"schema_fingerprint", TakeId(w)>>>>)

TakeDeclaration(w) == TakeFields(<<<<"id", TakeU32(w)>>, <<"critical", TakeBool(w)>>>>)

TakeCapabilities(w) ==
    TakeFields(
        << <<"protocol_generations",
             TakeList(w, TakeGeneration(w), 0 .. MaxCapabilityProtocols)>>,
           <<"schema_fingerprints", TakeList(w, TakeId(w), 0 .. MaxCapabilitySchemas)>>,
           <<"codec_preferences", TakeList(w, TakePreference(w), 0 .. MaxCapabilityCodecs)>>,
           <<"max_operation_octets", TakeU32(w)>>, <<"max_data_payload_octets", TakeU64(w)>>,
           <<"receipt_levels", TakeBits(w)>>,
           <<"security_class", TakeEnum(w, SecurityClasses)>>,
           <<"extensions", TakeList(w, TakeDeclaration(w), 0 .. MaxExtensions)>> >>)

TakeSummary(w) ==
    TakeFields(<<<<"collection_id", TakeId(w)>>, <<"generation", TakeU64(w)>>,
                 <<"item_count", TakeU64(w)>>, <<"collection_digest", TakeId(w)>>>>)

TakeOffer(w) ==
    TakeFields(
        << <<"collection_id", TakeId(w)>>, <<"mode", TakeEnum(w, OfferModes)>>,
           <<"base_generation", TakeU64(w)>>, <<"target_generation", TakeU64(w)>>,
           <<"first_cursor", TakeCursor(w)>>, <<"last_cursor", TakeCursor(w)>>,
           <<"descriptors", TakeList(w, TakeDescriptor(w), 0 .. MaxOfferDescriptors)>>,
           <<"more", TakeBool(w)>> >>)

TakePageRequest(w) ==
    TakeFields(
        << <<"collection_id", TakeId(w)>>, <<"target_generation", TakeU64(w)>>,
           <<"mode", TakeEnum(w, OfferModes)>>, <<"committed_cursor", TakeCursor(w)>>,
           <<"page_entry_limit", TakeU8(w)>> >>)

TakeSelection(w) ==
    TakeFields(<<<<"representation_id", TakeId(w)>>, <<"durable_prefix_offset", TakeU64(w)>>,
                 <<"max_desired_payload_octets", TakeU64(w)>>>>)

TakeDataRequest(w) ==
    TakeFields(
        << <<"budget_id", TakeId16(w)>>, <<"max_total_bempic_bytes", TakeU64(w)>>,
           <<"max_sender_to_receiver_bytes", TakeU64(w)>>,
           <<"max_receiver_to_sender_bytes", TakeU64(w)>>,
           <<"selections", TakeList(w, TakeSelection(w), 0 .. MaxRequestSelections)>> >>)

TakeData(w) ==
    TakeFields(<<<<"representation_id", TakeId(w)>>, <<"offset", TakeU64(w)>>,
                 <<"payload", TakeOctets(w, TakeU32(w), MaxRecordOctets)>>>>)

TakeReceipt(w) ==
    TakeFields(
        << <<"subject_id", TakeId(w)>>, <<"status", TakeEnum(w, ReceiptStatuses)>>,
           <<"verified_digest", TakeOption(w, TakeId(w))>>, <<"idempotency_id", TakeId16(w)>>,
           <<"reason", TakeText(w, MaxFailureDetailOctets)>> >>)

TakeFailure(w) ==
    TakeFields(
        << <<"code", TakeEnum(w, FailureCodes)>>,
           <<"scope", TakeOctets(w, TakeU8(w), MaxFailureScopeOctets)>>,
           <<"retryable", TakeBool(w)>>, <<"detail", TakeText(w, MaxFailureDetailOctets)>> >>)

\* Operation::decode_payload, by tag.
TakePayload(w) ==
    << TakeCapabilities(w), TakeSummary(w), TakeOffer(w),
       TakeChoice(w, <<TakePageRequest(w), TakeDataRequest(w)>>),
       TakeData(w), TakeReceipt(w), TakeFailure(w) >>

TakeExtensions(w) ==
    TakeList(w,
        TakeFields(<<<<"id", TakeU32(w)>>, <<"critical", TakeBool(w)>>,
                     <<"value", TakeOctets(w, TakeU16(w), MaxExtensionValueOctets)>>>>),
        0 .. MaxExtensions)

\* The extensions a peer that supports these identifiers keeps.
Kept(extensions, supported) ==
    FlattenSeq([i \in DOMAIN extensions |->
                   IF extensions[i].id \in supported THEN <<extensions[i]>> ELSE << >>])

\* An identifier that is repeated, or critical and unknown, is an error.
Admissible(extensions, supported) ==
    /\ \A i, j \in DOMAIN extensions : extensions[i].id = extensions[j].id => i = j
    /\ \A i \in DOMAIN extensions :
          extensions[i].critical => extensions[i].id \in supported

\* The length the envelope declares is the length that follows it.
EnvelopeHolds(w) ==
    /\ Len(w) \in EnvelopeOctets .. MaxRecordOctets
    /\ <<w[1], w[2]>> = MAGIC
    /\ w[3] \in DOMAIN Kinds
    /\ TakeU32(w)[4] = Got(Len(w) - EnvelopeOctets, EnvelopeOctets + 1)

\* Record::decode but for Operation::validate: a sequence of the one record, or
\* << >> for an error.
DecodeUnvalidated(w, supported) ==
    IF ~EnvelopeHolds(w) THEN << >>
    ELSE Then(TakeEach(<<TakePayload(w)[w[3]], TakeExtensions(w)>>)[EnvelopeOctets + 1],
              LAMBDA parts, next :
                IF next # Len(w) + 1 \/ ~Admissible(parts[2], supported) THEN << >>
                ELSE << [operation  |-> [kind |-> Kinds[w[3]], body |-> parts[1]],
                         extensions |-> Kept(parts[2], supported)] >>)

\* Record::decode.
Decode(w, supported) ==
    LET got == DecodeUnvalidated(w, supported)
    IN  IF got = << >> THEN << >> ELSE IF ~ValidOperation(got[1].operation) THEN << >> ELSE got

=============================================================================
