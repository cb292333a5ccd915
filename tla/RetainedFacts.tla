--------------------------- MODULE RetainedFacts ---------------------------
(***************************************************************************)
(* What the protocol store promises about the facts it retains, with no    *)
(* slots, handles or failures: every operation takes effect once and whole *)
(* or not at all, receipts are only added, and an object once bound to its *)
(* immutable semantics stays bound to them.                                *)
(***************************************************************************)
EXTENDS ProtocolFacts

VARIABLE facts

Init == facts = NoFacts

Next ==
    \/ \E profile \in Profiles : facts' = Negotiated(facts, profile)
    \/ \E id \in Receipts \ facts.receipt_ids : facts' = WithReceipt(facts, id)
    \/ \E object \in Objects, digest \in Digests :
          /\ facts.object_bindings[object] = None
          /\ facts' = Bound(facts, object, digest)
    \/ \E scope \in Scopes, retryable \in BOOLEAN :
          facts' = Failed(facts, scope, retryable)
    \/ \E scope \in Scopes :
          /\ facts.failures[scope] # None
          /\ facts' = ConditionChanged(facts, scope)
    \/ \E scope \in Scopes :
          /\ MayRetry(facts, scope)
          /\ facts' = Retried(facts, scope)

Spec == Init /\ [][Next]_facts
=============================================================================
