--------------------------- MODULE ProtocolStore ---------------------------
(***************************************************************************)
(* The v0.1 protocol store (bempic-store/src/v01.rs): two copy-on-write    *)
(* slots holding the negotiated profile, the receipt IDs, the bindings of  *)
(* immutable objects and the retry state of failures.  Its collections are *)
(* the subject of CollectionSync.                                          *)
(*                                                                         *)
(* A slot is rewritten in place: the process can stop, or the write can    *)
(* fail, with the slot truncated or half written (Torn).  Every operation  *)
(* changes the state in the handle first and saves it afterwards; the next *)
(* operation finds what the failed one left in the handle, unless the      *)
(* caller drops the handle and reopens (RetryInPlace).  A call that        *)
(* changes nothing (a duplicate, a refused argument) is a stuttering step. *)
(***************************************************************************)
EXTENDS Integers, FiniteSets, ProtocolFacts

CONSTANTS
    Missing,          \* a slot file that does not exist
    Torn,             \* a slot file that does not parse
    RetryInPlace,     \* may the caller go on using a store that returned Err?
    MaxSequence,      \* stands for u64::MAX of State::sequence
    MaxDisturbances   \* bound: crashes, failed saves, repeated observations

ASSUME ConstantsAssumption ==
    /\ None \notin Profiles \union Digests
    /\ RetryInPlace \in BOOLEAN
    /\ MaxSequence \in Nat
    /\ MaxDisturbances \in Nat
    /\ {Missing, Torn} \intersect [sequence : 0 .. MaxSequence, facts : Facts]
         = {}

VARIABLES
    slots,         \* the two slot files
    mem,           \* ProtocolStore::state of the open handle
    open,          \* is there an open handle?
    acknowledged,  \* facts of the last operation that returned Ok(true)
    granted,       \* automatic retries granted since the failure was observed
    disturbances   \* disturbances so far (bound only)

vars == <<slots, mem, open, acknowledged, granted, disturbances>>

-----------------------------------------------------------------------------
(* Slots.                                                                  *)

State == [sequence : 0 .. MaxSequence, facts : Facts]

Default == [sequence |-> 0, facts |-> NoFacts]

Valid(files) == {i \in 0 .. 1 : files[i] \notin {Missing, Torn}}

\* The error open can return: slot files exist and none of them parses.
Opens(files) == Valid(files) # {} \/ \A i \in 0 .. 1 : files[i] = Missing

\* Faulty variant: the older of two valid slots is read.
OldestOf(files) ==
    IF Valid(files) = {} THEN Default
    ELSE files[CHOOSE i \in Valid(files) :
                 \A j \in Valid(files) : files[i].sequence <= files[j].sequence]

\* The state open starts from: the valid slot with the highest sequence.
Latest(files) ==
    IF Valid(files) = {} THEN Default
    ELSE files[CHOOSE i \in Valid(files) :
                 \A j \in Valid(files) : files[j].sequence <= files[i].sequence]

-----------------------------------------------------------------------------
(* Saving, stopping, reopening.                                            *)

Spend(n) ==
    /\ disturbances + n <= MaxDisturbances
    /\ disturbances' = disturbances + n

\* Faulty variant: one slot is rewritten for ever.
OneSlot(sequence) == 0

Slot(sequence) == sequence % 2

CanAdvance(sequence) == sequence < MaxSequence

\* The save fails, or the process stops in it: the handle, if it survives,
\* keeps the new facts under the old sequence.
Stopped(facts) ==
    /\ \/ open' = FALSE /\ mem' = Default
       \/ RetryInPlace /\ open' = TRUE /\ mem' = [mem EXCEPT !.facts = facts]
    /\ UNCHANGED acknowledged

\* The operation already put facts in the handle and now saves them.  The slot
\* file is truncated and rewritten: whatever interrupts that leaves the old
\* content, the new content, or neither.
Save(facts, cost) ==
    LET next == [sequence |-> mem.sequence + 1, facts |-> facts]
        i == Slot(next.sequence)
    IN \/ /\ CanAdvance(mem.sequence)
          /\ slots' = [slots EXCEPT ![i] = next]
          /\ mem' = next
          /\ open' = TRUE
          /\ acknowledged' = facts
          /\ Spend(cost)
       \/ /\ CanAdvance(mem.sequence)
          /\ \E content \in {slots[i], Torn, next} :
               slots' = [slots EXCEPT ![i] = content]
          /\ Stopped(facts)
          /\ Spend(cost + 1)
       \/ \* SequenceExhausted
          /\ ~CanAdvance(mem.sequence)
          /\ slots' = slots
          /\ Stopped(facts)
          /\ Spend(cost)

\* The process stops between two operations.
Crash ==
    /\ open
    /\ open' = FALSE
    /\ mem' = Default
    /\ Spend(1)
    /\ UNCHANGED <<slots, acknowledged, granted>>

Open ==
    /\ ~open
    /\ Opens(slots)
    /\ open' = TRUE
    /\ mem' = Latest(slots)
    /\ UNCHANGED <<slots, acknowledged, granted, disturbances>>

-----------------------------------------------------------------------------
(* Operations.                                                             *)

PersistNegotiation(profile) ==
    /\ open
    /\ Save(Negotiated(mem.facts, profile), 1)
    /\ UNCHANGED granted

CommitReceipt(id) ==
    /\ open
    /\ id \notin mem.facts.receipt_ids
    /\ Save(WithReceipt(mem.facts, id), 0)
    /\ UNCHANGED granted

\* Faulty variant: an existing binding is overwritten.
Rebind(object, digest) ==
    /\ open
    /\ mem.facts.object_bindings[object] # digest
    /\ Save(Bound(mem.facts, object, digest), 0)
    /\ UNCHANGED granted

\* observe_immutable_object: a bound object is a duplicate or a conflict.
ObserveImmutableObject(object, digest) ==
    /\ open
    /\ mem.facts.object_bindings[object] = None
    /\ Save(Bound(mem.facts, object, digest), 0)
    /\ UNCHANGED granted

RecordFailure(scope, retryable) ==
    /\ open
    /\ Save(Failed(mem.facts, scope, retryable),
            IF mem.facts.failures[scope] = None THEN 0 ELSE 1)
    /\ granted' = [granted EXCEPT ![scope] = 0]

MarkFailureConditionChanged(scope) ==
    /\ open
    /\ mem.facts.failures[scope] # None
    /\ Save(ConditionChanged(mem.facts, scope),
            IF mem.facts.failures[scope].condition_changed THEN 1 ELSE 0)
    /\ UNCHANGED granted

\* Faulty variant: the retry is granted without saving that it was.
TakeRetryUnsaved(scope) ==
    /\ open
    /\ MayRetry(mem.facts, scope)
    /\ mem' = [mem EXCEPT !.facts = Retried(@, scope)]
    /\ granted' = [granted EXCEPT ![scope] = @ + 1]
    /\ UNCHANGED <<slots, open, acknowledged, disturbances>>

\* take_failure_retry: the retry is granted when the call returns Ok(true),
\* which a save that succeeded may still not live to do.
TakeFailureRetry(scope) ==
    /\ open
    /\ MayRetry(mem.facts, scope)
    /\ Save(Retried(mem.facts, scope), 0)
    /\ granted' =
         IF open' /\ mem'.sequence > mem.sequence
         THEN [granted EXCEPT ![scope] = @ + 1]
         ELSE granted

-----------------------------------------------------------------------------
Init ==
    /\ slots = [i \in 0 .. 1 |-> Missing]
    /\ mem = Default
    /\ open = FALSE
    /\ acknowledged = NoFacts
    /\ granted = [s \in Scopes |-> 0]
    /\ disturbances = 0

Next ==
    \/ Open
    \/ Crash
    \/ \E profile \in Profiles : PersistNegotiation(profile)
    \/ \E id \in Receipts : CommitReceipt(id)
    \/ \E object \in Objects, digest \in Digests :
          ObserveImmutableObject(object, digest)
    \/ \E scope \in Scopes, retryable \in BOOLEAN :
          RecordFailure(scope, retryable)
    \/ \E scope \in Scopes : MarkFailureConditionChanged(scope)
    \/ \E scope \in Scopes : TakeFailureRetry(scope)

Spec == Init /\ [][Next]_vars

\* A caller reopens after an error and delivers an unacknowledged receipt again.
FairSpec ==
    /\ Spec
    /\ WF_vars(Open)
    /\ \A id \in Receipts : WF_vars(CommitReceipt(id))

-----------------------------------------------------------------------------
(* Properties.                                                             *)

TypeOK ==
    /\ slots \in [0 .. 1 -> State \union {Missing, Torn}]
    /\ mem \in State
    /\ open \in BOOLEAN
    /\ acknowledged \in Facts
    /\ granted \in [Scopes -> Nat]
    /\ disturbances \in 0 .. MaxDisturbances

\* Whenever no operation is in progress, what the handle answers from is what a
\* reopening would find: an operation that returned Ok is durable, and nothing
\* was durable that no operation reported (save, open).
ReturnIsDurable == open => Opens(slots) /\ mem = Latest(slots)

\* Once one save succeeded the store can always be opened: at no time are both
\* slots torn (save writes the slot the handle was not read from).
StaysRecoverable == [][Valid(slots) # {} => Valid(slots') # {}]_slots

\* A failure that was observed is retried automatically at most once, whatever
\* crashes, failing saves and reopenings come between (take_failure_retry).
RetryAtMostOnce ==
    \A scope \in Scopes :
        /\ granted[scope] <= 1
        /\ granted[scope] = 1 =>
              Latest(slots).facts.failures[scope].automatic_retry_attempts = 1

\* What an operation that returned Ok reported is never lost, even by a caller
\* that goes on after errors and then crashes: the store reopens, with every
\* such receipt and with every such binding unchanged (save, open).
AcknowledgedKept ==
    LET durable == Latest(slots).facts IN
    /\ acknowledged # NoFacts => Opens(slots)
    /\ acknowledged.receipt_ids \subseteq durable.receipt_ids
    /\ \A object \in Objects :
         acknowledged.object_bindings[object] # None =>
           durable.object_bindings[object]
             = acknowledged.object_bindings[object]

\* "Whether a receipt ID survived reopen": has_receipt answers TRUE only for a
\* receipt that a reopening would find.
HasReceiptSurvives ==
    open => mem.facts.receipt_ids \subseteq Latest(slots).facts.receipt_ids

\* Once one save succeeded, a receipt that is delivered again until it is
\* acknowledged is eventually retained for good, unless the sequence numbers
\* of the slots run out.
ReceiptsEventuallyRetained ==
    \A id \in Receipts :
        Valid(slots) # {} ~> \/ [](id \in Latest(slots).facts.receipt_ids)
                             \/ ~CanAdvance(Latest(slots).sequence)

Promise == INSTANCE RetainedFacts WITH facts <- Latest(slots).facts

\* The store implements RetainedFacts: torn writes, crashes and reopenings are
\* invisible in the newest valid slot.
ImplementsRetainedFacts == Promise!Spec
=============================================================================
