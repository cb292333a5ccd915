------------------------- MODULE MC_RecordExchange -------------------------
(* One small record of each shape, some with each option, some at a bound. *)
EXTENDS RecordExchange

MCWidth == [u16 |-> 1, u32 |-> 1, u64 |-> 2, id16 |-> 1, id |-> 1]
MCIdentity == [id |-> 9, revision |-> 2]

Ext(id, critical, value) == [id |-> id, critical |-> critical, value |-> value]
With(r, extensions) == [r EXCEPT !.extensions = extensions]

Caps == [ProfileCapabilities EXCEPT
            !.max_operation_octets = 5, !.security_class = "Confidential",
            !.extensions = <<[id |-> 4, critical |-> TRUE]>>]

Sum1 == [collection_id |-> 1, generation |-> 2, item_count |-> 1, collection_digest |-> 7]
Sum2 == [Sum1 EXCEPT !.generation = 300, !.item_count = 130]
SumBad == [Sum1 EXCEPT !.item_count = 3]

Entry(n, object) ==
    [ sequence |-> n, object_id |-> object, part_id |-> 0,
      representation_id |-> 5, schema_fingerprint |-> 3, codec_id |-> 1,
      codec_revision |-> 1, codec_parameters |-> << >>, encoded_length |-> 256,
      decoded_length |-> << >>, content_digest |-> 6, usefulness_expiry |-> << >> ]
EntryFull == [Entry(2, 1) EXCEPT !.codec_parameters = <<1, 2>>,
                                 !.decoded_length = <<300>>, !.usefulness_expiry = <<1>>]

OfferOf(mode, entries) ==
    [ collection_id |-> 1, mode |-> mode, base_generation |-> 0,
      target_generation |-> 2, first_cursor |-> CursorOf(mode, Head(entries)),
      last_cursor |-> CursorOf(mode, Last(entries)), descriptors |-> entries,
      more |-> FALSE ]

PageOf(mode) ==
    [ collection_id |-> 1, target_generation |-> 2, mode |-> mode,
      committed_cursor |-> CursorOf(mode, Entry(1, 2)), page_entry_limit |-> 2 ]
SelectionOf(id) ==
    [representation_id |-> id, durable_prefix_offset |-> 0, max_desired_payload_octets |-> 44]
DataFor ==
    [ budget_id |-> 1, max_total_bempic_bytes |-> 300, max_sender_to_receiver_bytes |-> 300,
      max_receiver_to_sender_bytes |-> 0, selections |-> <<SelectionOf(5), SelectionOf(6)>> ]

DataOf(n, offset) ==
    [representation_id |-> 5, offset |-> offset, payload |-> [i \in 1 .. n |-> i % 256]]

Committed == [subject_id |-> 5, status |-> "RepresentationCommitted",
              verified_digest |-> <<6>>, idempotency_id |-> 1, reason |-> << >>]
Rejected == [subject_id |-> 5, status |-> "ApplicationRejected",
             verified_digest |-> << >>, idempotency_id |-> 1, reason |-> <<<<32, 126>>>>]
Unretained == [code |-> "CheckpointUnknown", scope |-> <<1, 255>>,
               retryable |-> TRUE, detail |-> <<<<65>>>>]

MCRecords ==
    { Plain("CAPABILITIES", ProfileCapabilities), Plain("CAPABILITIES", Caps),
      Plain("SUMMARY", Sum1), Plain("SUMMARY", Sum2), Plain("SUMMARY", SumBad),
      With(Plain("SUMMARY", Sum1), <<Ext(1, TRUE, <<3>>)>>),
      Plain("OFFER", OfferOf("Delta", <<Entry(1, 2), EntryFull>>)),
      Plain("OFFER", OfferOf("Full", <<EntryFull, Entry(1, 2)>>)),
      Plain("OFFER", OfferOf("Delta", <<Entry(1, 1), Entry(2, 1)>>)),
      Plain("REQUEST", PageOf("Delta")), Plain("REQUEST", PageOf("Full")),
      Plain("REQUEST", DataFor),
      Plain("DATA", DataOf(2, 298)), Plain("DATA", DataOf(1, 300)),
      With(Plain("DATA", DataOf(1, 0)), <<Ext(1, FALSE, << >>), Ext(2, FALSE, <<1, 2>>)>>),
      Plain("DATA", DataOf(MaxRecordOctets - 9, 0)),
      Plain("DATA", DataOf(MaxRecordOctets - 8, 0)),
      Plain("RECEIPT", Committed), Plain("RECEIPT", Rejected),
      Plain("FAILURE", Unretained) }

\* A record that loses its aliased form's exclusion with its only extension.
MCOptional ==
    { With(Plain("SUMMARY", Sum1), <<Ext(1, FALSE, <<3>>)>>),
      With(Plain("CAPABILITIES", ProfileCapabilities), <<Ext(2, FALSE, << >>)>>),
      With(Plain("DATA", DataOf(1, 0)), <<Ext(1, FALSE, << >>)>>) }



\* The operations of generation 0: DATA with no octet, with one, with as many
\* as the u16 of the envelope counts, and with one more.
ExperimentalData(n) ==
    [representation_id |-> 5, offset |-> 298, payload |-> [i \in 1 .. n |-> i % 256]]
MostData == Pow256[Width.u16] - 1 - Width.id16 - Width.u64

MCOperations ==
    { [kind |-> "CAPABILITIES",
       body |-> [encoding_generation |-> 0, max_record_size |-> 200, features |-> 3]],
      [kind |-> "SUMMARY", body |-> [item_count |-> 300, digest |-> 7]] }
    \cup
    { [kind |-> "OFFER",
       body |-> [representation_id |-> 5, kind |-> kind, size |-> 300, digest |-> 6,
                 schema_fingerprint |-> 3]] : kind \in RepresentationKinds }
    \cup
    { [kind |-> "REQUEST",
       body |-> [representation_id |-> 5, offset |-> 256, max_payload_bytes |-> 44]] }
    \cup
    { [kind |-> "DATA", body |-> ExperimentalData(n)] : n \in {0, 1, MostData, MostData + 1} }
    \cup
    { [kind |-> "RECEIPT", body |-> [representation_id |-> 5, stage |-> stage, digest |-> 6]] :
        stage \in ReceiptStages }

AttachmentOf(part) ==
    [part_id |-> part, filename |-> <<97, 98>>, media_type |-> <<47, 127>>,
     representation_id |-> 5, size |-> 300, digest |-> 6]
\* No subject; an empty one; every text, list and body as long as it may be;
\* messages the application model refuses.
Small == [logical_id |-> 1, created_at |-> 300, sender |-> <<97>>, recipients |-> <<<<98>>>>,
          subject |-> << >>, body |-> << >>, attachments |-> << >>]
Largest == [Small EXCEPT !.sender = <<97, 0>>, !.recipients = <<<<98, 99>>, <<98, 99>>>>,
                         !.subject = <<<<1, 2>>>>, !.body = <<10, 127, 0>>,
                         !.attachments = <<AttachmentOf(2), AttachmentOf(1)>>]

MCMessages ==
    { Small, [Small EXCEPT !.subject = <<<< >>>>, !.attachments = <<AttachmentOf(1)>>], Largest,
      [Largest EXCEPT !.body = @ \o <<1>>], [Largest EXCEPT !.subject = <<<<1, 2, 3>>>>],
      [Largest EXCEPT !.attachments = <<AttachmentOf(1), AttachmentOf(1)>>],
      [Small EXCEPT !.recipients = << >>], [Small EXCEPT !.sender = << >>] }

\* Records of the declared maximum.
Full == <<Ext(1, FALSE, <<1, 2>>), Ext(2, TRUE, <<1, 2>>)>>
LargestDescriptor(n, object) ==
    [Entry(n, object) EXCEPT !.codec_parameters = <<1, 2>>, !.decoded_length = <<300>>,
                             !.usefulness_expiry = <<1>>]
LargestCaps ==
    [Caps EXCEPT !.protocol_generations = <<[major |-> 0, minor |-> 1], [major |-> 1, minor |-> 0]>>,
                 !.schema_fingerprints = <<3, 4>>,
                 !.extensions = <<[id |-> 4, critical |-> TRUE], [id |-> 5, critical |-> FALSE]>>]

MCLargest ==
    { With(Plain("CAPABILITIES", LargestCaps), Full), With(Plain("SUMMARY", Sum2), Full),
      With(Plain("OFFER", OfferOf("Full", <<LargestDescriptor(1, 1), LargestDescriptor(2, 2)>>)),
           Full),
      With(Plain("REQUEST", DataFor), Full),
      With(Plain("RECEIPT", [Committed EXCEPT !.reason = <<<<32, 126>>>>]), Full),
      With(Plain("FAILURE", [Unretained EXCEPT !.detail = <<<<65, 66>>>>]), Full) }

\* The code writes the maxima as literals: they are those of the analysis at
\* the widths and bounds of the code.
RealWidth == [u16 |-> 2, u32 |-> 4, u64 |-> 8, id16 |-> 16, id |-> 32]
Real ==
    INSTANCE RecordCodec WITH
        Width <- RealWidth, MaxExtensionValueOctets <- 1024, MaxOfferDescriptors <- 128,
        MaxRequestSelections <- 128, MaxCollectionEntries <- 1000000,
        MaxFailureDetailOctets <- 256, MaxFailureScopeOctets <- 64,
        MaxCodecParameterOctets <- 1024, MaxRecordOctets <- 1048576,
        MaxCapabilityProtocols <- 8, MaxCapabilitySchemas <- 16, MaxCapabilityCodecs <- 16,
        MaxExtensions <- 32

ASSUME LiteralsAreTheMaxima ==
    [i \in 1 .. 7 |-> Real!DeclaredMaximum(Kinds[i])]
      = <<34362, 33080, 186789, 39186, 1048576, 33341, 33326>>

MCAllRecords == MCRecords \cup MCOptional \cup MCLargest

MCCheckpoints == {Sum1, Sum2}
MCSupportedSets == SUBSET {1, 2}
MCFaultOctets == {0, 1, 2, 127, 128, 255}

=============================================================================
