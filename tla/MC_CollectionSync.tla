------------------------- MODULE MC_CollectionSync -------------------------
(* Small instances of CollectionSync for TLC.                              *)
EXTENDS CollectionSync

\* The key order differs from the append order, so that a full inventory and a
\* delta list the same entries differently.
MCHistory == <<3, 1, 4, 2>>
=============================================================================
