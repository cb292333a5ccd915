-------------------------- MODULE MC_ProtocolStore --------------------------
(* Small instances of ProtocolStore for TLC.                               *)
EXTENDS ProtocolStore
=============================================================================
