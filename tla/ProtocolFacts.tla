--------------------------- MODULE ProtocolFacts ---------------------------
(***************************************************************************)
(* The facts a protocol store retains (the fields of its State other than  *)
(* the collections) and what each operation makes of them.                 *)
(***************************************************************************)
EXTENDS Naturals

CONSTANTS
    Profiles,   \* negotiated profiles with their peer and expiry
    Receipts,   \* receipt idempotency IDs
    Objects,    \* object IDs
    Digests,    \* immutable-semantics digests
    Scopes,     \* failure scopes
    None        \* nothing retained

FailureState ==
    [retryable : BOOLEAN,
     condition_changed : BOOLEAN,
     automatic_retry_attempts : 0 .. 1]

Facts ==
    [capability_cache : Profiles \union {None},
     receipt_ids : SUBSET Receipts,
     object_bindings : [Objects -> Digests \union {None}],
     failures : [Scopes -> FailureState \union {None}]]

NoFacts ==
    [capability_cache |-> None,
     receipt_ids |-> {},
     object_bindings |-> [o \in Objects |-> None],
     failures |-> [s \in Scopes |-> None]]

-----------------------------------------------------------------------------
(* What each operation makes of the facts f.                               *)

Negotiated(f, profile) == [f EXCEPT !.capability_cache = profile]

WithReceipt(f, id) == [f EXCEPT !.receipt_ids = @ \union {id}]

Bound(f, object, digest) == [f EXCEPT !.object_bindings[object] = digest]

\* A newly observed failure replaces the one its scope had.
Observed(retryable) ==
    [retryable |-> retryable,
     condition_changed |-> FALSE,
     automatic_retry_attempts |-> 0]

Failed(f, scope, retryable) ==
    [f EXCEPT !.failures[scope] = Observed(retryable)]

ConditionChanged(f, scope) ==
    [f EXCEPT !.failures[scope].condition_changed = TRUE]

MayRetry(f, scope) ==
    /\ f.failures[scope] # None
    /\ f.failures[scope].retryable
    /\ f.failures[scope].condition_changed
    /\ f.failures[scope].automatic_retry_attempts = 0

Retried(f, scope) == [f EXCEPT !.failures[scope].automatic_retry_attempts = 1]
=============================================================================
