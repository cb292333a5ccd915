-------------------------- MODULE DurableTransfer --------------------------
(***************************************************************************)
(* What a representation store promises about one representation, with no  *)
(* files, slots, handles or failures: an accepted descriptor, a staged     *)
(* prefix that only grows, a rejection that discards a full but unusable   *)
(* candidate, one atomic commit of exactly the prepared bytes, and a set   *)
(* of receipt IDs that only grows.                                         *)
(*                                                                         *)
(* RepresentationStore implements this specification under the refinement  *)
(* mapping it declares; crashes, torn appends, failing saves and reopenings*)
(* are steps of that module which this one cannot see.                     *)
(***************************************************************************)
EXTENDS Naturals, Sequences

CONSTANTS
    Octets,     \* values one payload octet may take
    Encoded,    \* the exact prepared bytes the descriptor binds
    Decodes,    \* does the deterministic decode validator accept Encoded?
    Receipts    \* receipt idempotency IDs

VARIABLES
    accepted,   \* the exact descriptor was durably accepted
    staged,     \* bytes durably held for the representation
    committed,  \* the bytes were atomically promoted
    receipts    \* durably retained receipt IDs

transferVars == <<accepted, staged, committed, receipts>>

Init ==
    /\ accepted = FALSE
    /\ staged = << >>
    /\ committed = FALSE
    /\ receipts = {}

Accept ==
    /\ ~accepted
    /\ accepted' = TRUE
    /\ UNCHANGED <<staged, committed, receipts>>

\* The prefix grows, never past the descriptor's length.
Receive ==
    /\ accepted
    /\ ~committed
    /\ staged' \in Seq(Octets)
    /\ Len(staged) < Len(staged')
    /\ Len(staged') <= Len(Encoded)
    /\ SubSeq(staged', 1, Len(staged)) = staged
    /\ UNCHANGED <<accepted, committed, receipts>>

\* Only a full candidate that is not the prepared representation, or that the
\* decoder refuses, is thrown away.
Reject ==
    /\ ~committed
    /\ Len(staged) = Len(Encoded)
    /\ ~(staged = Encoded /\ Decodes)
    /\ staged' = << >>
    /\ UNCHANGED <<accepted, committed, receipts>>

Commit ==
    /\ accepted
    /\ ~committed
    /\ staged = Encoded
    /\ Decodes
    /\ committed' = TRUE
    /\ UNCHANGED <<accepted, staged, receipts>>

RetainReceipt ==
    /\ \E id \in Receipts \ receipts : receipts' = receipts \union {id}
    /\ UNCHANGED <<accepted, staged, committed>>

Next ==
    \/ Accept
    \/ Receive
    \/ Reject
    \/ Commit
    \/ RetainReceipt

Spec == Init /\ [][Next]_transferVars
=============================================================================
