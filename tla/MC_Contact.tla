---------------------------- MODULE MC_Contact ----------------------------
(* Small instances of Contact for TLC.                                    *)
EXTENDS Contact
=============================================================================
