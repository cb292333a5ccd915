---------------------------- MODULE Negotiation ----------------------------
(***************************************************************************)
(* Capability negotiation of generation 0.1: what a peer advertises, how   *)
(* the advertisement is validated, and how negotiate picks the one tuple   *)
(* both peers can use (crates/bempic-sync/src/v01.rs).                     *)
(*                                                                         *)
(* A schema fingerprint and an extension's registry ID are numbers ordered *)
(* as their octets are; the bit set of receipt levels is a set.            *)
(***************************************************************************)
EXTENDS Naturals, SequencesExt

CONSTANTS
    MaxCapabilityProtocols,     \* MAX_CAPABILITY_PROTOCOLS
    MaxCapabilitySchemas,       \* MAX_CAPABILITY_SCHEMAS
    MaxCapabilityCodecs,        \* MAX_CAPABILITY_CODECS
    MaxExtensions,              \* MAX_EXTENSIONS
    MaxOperationOctets,         \* MAX_OPERATION_OCTETS
    MaxRepresentationOctets     \* MAX_REPRESENTATION_OCTETS

ASSUME LimitsAssumption ==
    /\ MaxCapabilityProtocols \in Nat
    /\ MaxCapabilitySchemas \in Nat
    /\ MaxCapabilityCodecs \in Nat
    /\ MaxExtensions \in Nat
    /\ MaxOperationOctets \in Nat
    /\ MaxRepresentationOctets \in Nat

ProtocolGeneration == [major : Nat, minor : Nat]
CodecPreference == [codec_id : Nat, revision : Nat, schema_fingerprint : Nat]
ExtensionDeclaration == [id : Nat, critical : BOOLEAN]

\* In the order of their codes on the wire, 0 to 2.
SecurityClasses == <<"Public", "AuthenticatedPublic", "Confidential">>

\* Every advertisement a peer can hold, valid or not.
Capabilities ==
    [ protocol_generations    : Seq(ProtocolGeneration),
      schema_fingerprints     : Seq(Nat),
      codec_preferences       : Seq(CodecPreference),
      max_operation_octets    : Nat,
      max_data_payload_octets : Nat,
      receipt_levels          : SUBSET (0 .. 7),
      security_class          : ToSet(SecurityClasses),
      extensions              : Seq(ExtensionDeclaration) ]

NonemptyUnique(list, maximum) ==
    /\ Len(list) \in 1 .. maximum
    /\ IsInjective(list)

ExtensionIds(c) == {x.id : x \in ToSet(c.extensions)}

CriticalIds(c) == {x.id : x \in {y \in ToSet(c.extensions) : y.critical}}

ValidMaxima(c) ==
    /\ c.max_operation_octets \in 1 .. MaxOperationOctets
    /\ c.max_data_payload_octets \in 1 .. MaxRepresentationOctets

\* Capabilities::validate.
ValidCapabilities(c) ==
    /\ NonemptyUnique(c.protocol_generations, MaxCapabilityProtocols)
    /\ NonemptyUnique(c.schema_fingerprints, MaxCapabilitySchemas)
    /\ NonemptyUnique(c.codec_preferences, MaxCapabilityCodecs)
    /\ Len(c.extensions) <= MaxExtensions
    /\ \A i, j \in DOMAIN c.extensions :
          c.extensions[i].id = c.extensions[j].id => i = j
    /\ ValidMaxima(c)
    /\ \A p \in ToSet(c.codec_preferences) :
          p.schema_fingerprint \in ToSet(c.schema_fingerprints)

---------------------------------------------------------------------------
(* The selection.                                                          *)

Mine(a, b) == a

Smaller(a, b) == IF a <= b THEN a ELSE b

CommonGenerations(local, remote) ==
    ToSet(local.protocol_generations) \cap ToSet(remote.protocol_generations)

\* The order ProtocolGeneration derives.
AtLeast(g, h) == g.major > h.major \/ (g.major = h.major /\ g.minor >= h.minor)

Highest(generations) ==
    CHOOSE g \in generations : \A h \in generations : AtLeast(g, h)

\* Where both peers list the same tuple.
Matches(local, remote) ==
    { at \in (DOMAIN local.codec_preferences) \X (DOMAIN remote.codec_preferences) :
        local.codec_preferences[at[1]] = remote.codec_preferences[at[2]] }

CandidatesByLocalRank(local, remote) ==
    { [rank |-> at[1], tuple |-> local.codec_preferences[at[1]]] :
        at \in Matches(local, remote) }

CandidatesUnranked(local, remote) ==
    { [rank |-> 0, tuple |-> local.codec_preferences[at[1]]] :
        at \in Matches(local, remote) }

\* The tuples both peers list, each with the sum of its places in the lists.
Candidates(local, remote) ==
    { [rank |-> at[1] + at[2], tuple |-> local.codec_preferences[at[1]]] :
        at \in Matches(local, remote) }

\* The order the candidates are sorted in.
NotAfter(x, y) ==
    LET a == <<x.rank, x.tuple.codec_id, x.tuple.revision, x.tuple.schema_fingerprint>>
        b == <<y.rank, y.tuple.codec_id, y.tuple.revision, y.tuple.schema_fingerprint>>
    IN  \/ a = b
        \/ \E k \in 1 .. 4 : a[k] < b[k] /\ \A m \in 1 .. (k - 1) : a[m] = b[m]

Foremost(candidates) ==
    (CHOOSE x \in candidates : \A y \in candidates : NotAfter(x, y)).tuple

Common(local, remote) ==
    [ protocol                |-> Highest(CommonGenerations(local, remote)),
      codec                   |-> Foremost(Candidates(local, remote)),
      max_operation_octets    |-> Smaller(local.max_operation_octets,
                                          remote.max_operation_octets),
      max_data_payload_octets |-> Smaller(local.max_data_payload_octets,
                                          remote.max_data_payload_octets),
      receipt_levels          |-> local.receipt_levels \cap remote.receipt_levels,
      security_class          |-> local.security_class,
      extensions              |-> ExtensionIds(local) \cap ExtensionIds(remote) ]

Refused(code) == [failure |-> code]
Agreed(profile) == [profile |-> profile]

\* negotiate: its checks in the order the code makes them.
Negotiate(local, remote) ==
    IF ~ValidCapabilities(local) \/ ~ValidCapabilities(remote)
    THEN Refused("MalformedOperation")
    ELSE IF CommonGenerations(local, remote) = {}
    THEN Refused("UnsupportedVersion")
    ELSE IF local.security_class # remote.security_class
    THEN Refused("PolicyRejected")
    ELSE IF Candidates(local, remote) = {}
    THEN IF ToSet(local.schema_fingerprints) \cap ToSet(remote.schema_fingerprints) # {}
         THEN Refused("UnsupportedCodec")
         ELSE Refused("UnsupportedSchema")
    ELSE IF \/ ~(CriticalIds(local) \subseteq ExtensionIds(remote))
            \/ ~(CriticalIds(remote) \subseteq ExtensionIds(local))
    THEN Refused("UnsupportedCriticalExtension")
    ELSE Agreed(Common(local, remote))

=============================================================================
