-------------------------- MODULE MC_PeerProfiles --------------------------
\* Small advertisements: every preference order over three tuples of two
\* schemas, and variants that fail each check of negotiate.
EXTENDS PeerProfiles

CONSTANTS p, q

Tuples == { [codec_id |-> 7, revision |-> 1, schema_fingerprint |-> 1],
            [codec_id |-> 7, revision |-> 2, schema_fingerprint |-> 1],
            [codec_id |-> 9, revision |-> 1, schema_fingerprint |-> 2] }

Old == [major |-> 0, minor |-> 1]
New == [major |-> 1, minor |-> 0]

Base == [ protocol_generations |-> <<Old, New>>,
          schema_fingerprints |-> <<1, 2>>,
          codec_preferences |-> <<[codec_id |-> 7, revision |-> 1, schema_fingerprint |-> 1]>>,
          max_operation_octets |-> 4, max_data_payload_octets |-> 2,
          receipt_levels |-> {0, 1}, security_class |-> "Public",
          extensions |-> << >> ]

Orders == UNION {{s \in [1 .. n -> Tuples] : IsInjective(s)} : n \in 1 .. 3}

Critical == [id |-> 1, critical |-> TRUE]
Optional == [id |-> 1, critical |-> FALSE]

Variants ==
    { [Base EXCEPT !.protocol_generations = <<Old>>],
      [Base EXCEPT !.protocol_generations = <<[major |-> 0, minor |-> 2], Old>>,
                   !.max_operation_octets = 3],
      [Base EXCEPT !.protocol_generations = <<New>>, !.receipt_levels = {1, 2}],
      [Base EXCEPT !.schema_fingerprints = <<2>>],
      [Base EXCEPT !.schema_fingerprints = <<3>>,
                   !.codec_preferences = <<[codec_id |-> 7, revision |-> 1,
                                            schema_fingerprint |-> 3]>>],
      [Base EXCEPT !.max_operation_octets = 0],
      [Base EXCEPT !.max_data_payload_octets = 9],
      [Base EXCEPT !.security_class = "Confidential"],
      [Base EXCEPT !.extensions = <<Critical>>],
      [Base EXCEPT !.extensions = <<Optional, [id |-> 2, critical |-> FALSE]>>],
      [Base EXCEPT !.extensions = <<Critical, Optional>>] }

MCLaterOffers == {Base, [Base EXCEPT !.max_operation_octets = 3]}

MCOffers == MCLaterOffers \cup {[Base EXCEPT !.codec_preferences = s] : s \in Orders} \cup Variants

MCPeerOffers == [x \in Peers |-> IF x = p THEN MCOffers ELSE {Base}]

=============================================================================
