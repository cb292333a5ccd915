---------------------------- MODULE CompactCodec ----------------------------
(***************************************************************************)
(* The private-use compact codec (crates/bempic-sync/src/v01_compact.rs):  *)
(* it aliases one exact CAPABILITIES value and, when the caller supplies a *)
(* durable checkpoint, that checkpoint's SUMMARY; every other record is the*)
(* content of its B1 image behind a one-octet header and a varint length.  *)
(* A cache is << >> or <<summary>>: what Context.cached_summary holds.     *)
(***************************************************************************)
EXTENDS RecordCodec

CONSTANTS
    CodecIdentity,              \* [id, revision]: PRIVATE_CODEC_IDENTITY
    ProfileSchema,              \* PROFILE_SCHEMA_FINGERPRINT
    ProfileMaxDataOctets        \* the max_data_payload_octets it aliases

HeaderPrefix == 176
Forms == [Generic |-> 0, ProfileCapabilities |-> 1, FullSummary |-> 1, CachedSummary |-> 2]

\* profile_capabilities_for.
ProfileCapabilities ==
    [ protocol_generations    |-> <<[major |-> 0, minor |-> 1]>>,
      schema_fingerprints     |-> <<ProfileSchema>>,
      codec_preferences       |-> <<[codec_id |-> CodecIdentity.id,
                                     revision |-> CodecIdentity.revision,
                                     schema_fingerprint |-> ProfileSchema]>>,
      max_operation_octets    |-> MaxOperationOctets,
      max_data_payload_octets |-> ProfileMaxDataOctets,
      receipt_levels          |-> {0, 1, 2, 3},
      security_class          |-> "Public",
      extensions              |-> << >> ]

Plain(kind, body) ==
    [operation |-> [kind |-> kind, body |-> body], extensions |-> << >>]

\* The constants of the code: a record that needs no cache and is in bounds.
ASSUME ProfileAssumption ==
    /\ ProfileCapabilities \in WireCapabilities
    /\ Encodable(Plain("CAPABILITIES", ProfileCapabilities))

\* A record the codec has an alias for, whatever the cache: it has no
\* extension, and is the profile's CAPABILITIES or any SUMMARY.
Aliased(r) ==
    /\ r.extensions = << >>
    /\ \/ r.operation.kind = "SUMMARY"
       \/ r.operation.kind = "CAPABILITIES" /\ r.operation.body = ProfileCapabilities

CanonicalFormUncached(r, cache) ==
    IF ~Aliased(r) THEN "Generic"
    ELSE IF r.operation.kind = "CAPABILITIES" THEN "ProfileCapabilities"
    ELSE "FullSummary"

\* canonical_form.
CanonicalForm(r, cache) ==
    IF ~Aliased(r) THEN "Generic"
    ELSE IF r.operation.kind = "CAPABILITIES" THEN "ProfileCapabilities"
    ELSE IF cache = <<r.operation.body>> THEN "CachedSummary"
    ELSE "FullSummary"

\* The digest of a summary in the cache's domain: an injective image of it.
SummaryBinding(s) ==
    PutId(s.collection_id) \o PutU64(s.generation) \o PutU64(s.item_count)
      \o PutId(s.collection_digest)

BindingOctets == 2 * Width.id + 2 * Width.u64

---------------------------------------------------------------------------
(* Seven bits in an octet, the least significant first; the high bit says  *)
(* that another octet follows.                                             *)

Pow128[k \in Nat] == IF k = 0 THEN 1 ELSE 128 * Pow128[k - 1]

VarintSize(n) ==
    CHOOSE k \in 1 .. (n + 1) : n < Pow128[k] /\ (k = 1 \/ Pow128[k - 1] <= n)

PutVarint(n) ==
    [i \in 1 .. VarintSize(n) |->
        ((n \div Pow128[i - 1]) % 128) + IF i < VarintSize(n) THEN 128 ELSE 0]

VarintValue(octets) == SumOf([i \in DOMAIN octets |-> (octets[i] % 128) * Pow128[i - 1]])

\* take_varint, by what it reads: the octets up to the first without the
\* high bit, if the integer type holds the value.
TakeAnyVarint(w) ==
    [at \in Positions |->
        LET ends == {i \in at .. Len(w) : w[i] < 128}
            last == CHOOSE i \in ends : \A j \in ends : i <= j
            value == VarintValue(SubSeq(w, at, last))
        IN  IF \/ ends = {}
               \/ last - at >= VarintSize(Pow256[Width.u64] - 1)
               \/ value \notin U64
            THEN << >>
            ELSE Got(value, last + 1)]

\* And if no shorter image has the value.
TakeVarint(w) ==
    [at \in Positions |->
        Then(TakeAnyVarint(w)[at], LAMBDA value, next :
            IF next - at = VarintSize(value) THEN Got(value, next) ELSE << >>)]

---------------------------------------------------------------------------

\* exact_body_size.
CompactBodySize(r, cache) ==
    LET v == r.operation.body
        form == CanonicalForm(r, cache)
    IN  CASE form = "ProfileCapabilities" -> 1
          [] form = "CachedSummary" -> 1 + BindingOctets
          [] form = "FullSummary" ->
                1 + Width.id + VarintSize(v.generation) + VarintSize(v.item_count) + Width.id
          [] form = "Generic" -> 1 + (ExactEncodedSize(r) - EnvelopeOctets)

CompactSize(r, cache) ==
    LET body == CompactBodySize(r, cache)
    IN  1 + VarintSize(body) + body

\* Faulty variant: the octet that names the form is forgotten.
CompactDeclaredMaximumFormless(kind) ==
    LET body == DeclaredMaximum(kind) - EnvelopeOctets
    IN  1 + VarintSize(body) + body

\* Its declared_max_encoded_size: the content of the largest B1 record, in the
\* generic form.
CompactDeclaredMaximum(kind) ==
    LET body == 1 + DeclaredMaximum(kind) - EnvelopeOctets
    IN  1 + VarintSize(body) + body

\* The literals of the code: a varint holds the length of a record; varints may
\* be longer than the fixed fields of a SUMMARY, but not by what a generic
\* SUMMARY may have of extensions.
ASSUME VarintAssumption ==
    /\ MaxRecordOctets \in U64
    /\ 2 * VarintSize(Pow256[Width.u64] - 1) <= 2 * Width.u64 + MaximumExtensions

CompactEncodable(r, cache) == Encodable(r) /\ CompactSize(r, cache) <= MaxRecordOctets

PutFullSummary(v) ==
    PutId(v.collection_id) \o PutVarint(v.generation) \o PutVarint(v.item_count)
      \o PutId(v.collection_digest)

\* What follows the octet that names the form.
CompactContent(r, cache) ==
    LET form == CanonicalForm(r, cache)
        image == Encode(r)
    IN  CASE form = "ProfileCapabilities" -> << >>
          [] form = "CachedSummary" -> SummaryBinding(r.operation.body)
          [] form = "FullSummary" -> PutFullSummary(r.operation.body)
          [] form = "Generic" -> SubSeq(image, EnvelopeOctets + 1, Len(image))

\* encode_for.
CompactEncode(r, cache) ==
    <<HeaderPrefix + Tag(r.operation.kind)>> \o PutVarint(CompactBodySize(r, cache))
      \o <<Forms[CanonicalForm(r, cache)]>> \o CompactContent(r, cache)

DecodeAnyBinding(content, cache) ==
    IF Len(content) # BindingOctets \/ cache = << >> THEN << >>
    ELSE <<Plain("SUMMARY", cache[1])>>

DecodeCachedSummary(content, cache) ==
    IF cache = << >> THEN << >>
    ELSE IF content # SummaryBinding(cache[1]) THEN << >>
    ELSE <<Plain("SUMMARY", cache[1])>>

TakeFullSummary(w) ==
    TakeFields(<<<<"collection_id", TakeId(w)>>, <<"generation", TakeVarint(w)>>,
                 <<"item_count", TakeVarint(w)>>, <<"collection_digest", TakeId(w)>>>>)

DecodeFullSummary(content, cache) ==
    Then(TakeFullSummary(content)[1], LAMBDA summary, next :
        IF \/ next # Len(content) + 1
           \/ ~Encodable(Plain("SUMMARY", summary))
           \/ cache = <<summary>>
        THEN << >>
        ELSE <<Plain("SUMMARY", summary)>>)

\* decode_generic, and what decode_for refuses of it.
DecodeGeneric(tag, content, supported) ==
    LET got == Decode(MAGIC \o <<tag>> \o PutU32(Len(content)) \o content, supported)
    IN  IF got = << >> THEN << >> ELSE IF Aliased(got[1]) THEN << >> ELSE got

\* The forms a kind may have.
DecodeForm(tag, form, content, supported, cache) ==
    LET kind == Kinds[tag]
    IN  IF form = Forms.Generic THEN DecodeGeneric(tag, content, supported)
        ELSE IF kind = "CAPABILITIES" /\ form = Forms.ProfileCapabilities /\ content = << >>
        THEN <<Plain(kind, ProfileCapabilities)>>
        ELSE IF kind = "SUMMARY" /\ form = Forms.CachedSummary
        THEN DecodeCachedSummary(content, cache)
        ELSE IF kind = "SUMMARY" /\ form = Forms.FullSummary
        THEN DecodeFullSummary(content, cache)
        ELSE << >>

\* decode_for.
CompactDecode(octets, supported, cache) ==
    IF \/ Len(octets) \notin 3 .. MaxRecordOctets
       \/ octets[1] - HeaderPrefix \notin DOMAIN Kinds
    THEN << >>
    ELSE Then(TakeVarint(octets)[2], LAMBDA length, at :
            IF length # Len(octets) - at + 1 \/ length = 0 THEN << >>
            ELSE DecodeForm(octets[1] - HeaderPrefix, octets[at],
                            SubSeq(octets, at + 1, Len(octets)), supported, cache))

=============================================================================
