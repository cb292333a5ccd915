------------------------------ MODULE Contact ------------------------------
(***************************************************************************)
(* One representation moved over a series of contacts (run_contact and     *)
(* run_until_complete in bempic-sim/src/v01.rs): negotiation, SUMMARY and  *)
(* OFFER, an explicit REQUEST with a hard budget, one DATA record and its  *)
(* replays, verification and commit, RECEIPT, over a carrier with a byte   *)
(* budget that may disconnect at any record.                               *)
(*                                                                         *)
(* The receiver's variables hold what its stores hold durably: as          *)
(* RepresentationStore and ProtocolStore show, a store operation takes     *)
(* effect whole or not at all, and a failed one ends the contact.  Sizes   *)
(* are exact record sizes in octets.  Corruption flips one octet of a      *)
(* payload, so a staged prefix is either intact or not.                    *)
(***************************************************************************)
EXTENDS Integers

CONSTANTS
    Lengths,            \* encoded lengths a representation may have
    CapabilitiesSize, SummarySize, OfferSize, RequestSize, ReceiptSize,
    DataOverhead,       \* octets of a DATA record beside its payload
    Budgets,            \* byte budgets a contact may have
    RecordLimits,       \* max_record_bytes a contact may have
    MaxReplays,         \* bound on ContactPlan::replay_data_records
    Connections,        \* may the carrier be there at the first record?
    FullRestarts,       \* the directories full-restart/<number> that plans with
                        \* discard_receiver_state may open
    None,               \* no cached negotiation
    MaxDisturbances     \* bound: losses, corruption, failures, changes of root

ASSUME ConstantsAssumption ==
    /\ Lengths \subseteq Nat
    /\ {CapabilitiesSize, SummarySize, OfferSize, RequestSize, ReceiptSize,
        DataOverhead} \subseteq Nat \ {0}
    /\ Budgets \subseteq Nat
    /\ RecordLimits \subseteq Nat \ {0}
    /\ MaxReplays \in Nat
    /\ Connections \subseteq BOOLEAN
    /\ "persistent" \notin FullRestarts
    /\ None \notin Nat
    /\ MaxDisturbances \in Nat

VARIABLES
    length,       \* encoded_length of the representation (never changes)
    \* the contact in progress
    stage,        \* the record or the local step that comes next
    outcome,      \* how the last contact ended, "none" while one runs
    remaining,    \* octets left of the carrier's budget
    limit,        \* the carrier's max_record_bytes
    connected,    \* has the carrier not disconnected yet?
    scope,        \* BudgetScope of the accepted request
    payload,      \* octets the request authorized
    replays,      \* DATA replays the plan still asks for
    \* the endpoints
    sender,       \* SenderState of the sender process
    profile,      \* cached negotiated max_operation_octets
    accepted,     \* the descriptor is durably accepted
    prefix,       \* durable prefix
    intact,       \* is the durable prefix the sender's bytes?
    committed,    \* exact bytes are committed
    receipted,    \* the receipt ID is retained
    useful,       \* useful_committed_octets counted for this store
    ledger,       \* of this contact: the prefix before it, payload octets
                  \* delivered and duplicate, integrity failures
    \* run_until_complete's directories
    root,         \* the one the receiver has open
    opened,       \* full restarts this call has opened
    kept,         \* what each of them but root holds
    disturbances  \* disturbances so far (bound only)

carrierVars == <<remaining, limit, connected>>
requestVars == <<scope, payload, replays>>
storeVars == <<accepted, prefix, intact, committed, receipted>>
counters == <<useful, ledger>>
rootVars == <<root, opened, kept>>
vars == <<length, stage, outcome, carrierVars, requestVars, sender, profile,
        storeVars, counters, rootVars, disturbances>>

-----------------------------------------------------------------------------
Least(S) == CHOOSE x \in S : \A y \in S : x <= y

Spend(n) ==
    /\ disturbances + n <= MaxDisturbances
    /\ disturbances' = disturbances + n

\* SenderState::transition.
Forward ==
    {<<"Available", "Offered">>, <<"Offered", "Requested">>,
     <<"Requested", "Sending">>, <<"Sending", "Sending">>,
     <<"Sending", "AwaitingReceipt">>, <<"AwaitingReceipt", "Receipted">>}

Go(next) == stage' = next /\ outcome' = outcome

\* run_contact returns: with a report, or with an error.
End(how) == stage' = "idle" /\ outcome' = how

EffectiveLimit == IF profile = None THEN limit ELSE Least({limit, profile})

\* Faulty variant: the hard budget is forgotten.
AdmittedBySize(size) == size <= EffectiveLimit

Admitted(size) == size <= EffectiveLimit /\ size <= remaining

\* submit: the record is not admitted, or it is charged and then delivered or
\* lost with the contact, or the carrier is already gone, an error.
Submit(size, delivered, missed, gone) ==
    \/ /\ ~Admitted(size)
       /\ missed
       /\ UNCHANGED <<carrierVars, disturbances>>
    \/ /\ Admitted(size)
       /\ connected
       /\ remaining' = remaining - size
       /\ \/ delivered /\ UNCHANGED <<connected, disturbances>>
          \/ missed /\ connected' = FALSE /\ Spend(1)
       /\ UNCHANGED limit
    \/ /\ Admitted(size)
       /\ ~connected
       /\ gone
       /\ UNCHANGED <<carrierVars, disturbances>>

\* A record arrives and the receiver's store then fails.
Stumble(size) ==
    /\ Admitted(size)
    /\ connected
    /\ remaining' = remaining - size
    /\ Spend(1)
    /\ End("store")
    /\ UNCHANGED <<limit, connected>>

\* run_contact returns and leaves the endpoints as they are: a record that did
\* not arrive ends the contact as a pause, a carrier that is gone as an error.
Leave(how) ==
    /\ End(how)
    /\ UNCHANGED <<sender, profile, storeVars, counters>>

Pause == Leave("report")
Broken == Leave("disconnected")

-----------------------------------------------------------------------------
(* A contact, from its start to its end.                                   *)

Opening(cached, known) ==
    IF cached = None THEN "capabilities"
    ELSE IF known THEN "verify_before" ELSE "summary"

Scopes == {"total", "sender_to_receiver", "receiver_to_sender"}

ScopeOf(max) ==
    [max |-> [d \in Scopes |-> max], used |-> [d \in Scopes |-> 0]]

Directories == {"persistent"} \union FullRestarts

\* What a directory holds before anything arrives, and what this one holds now.
Fresh ==
    [profile |-> None, accepted |-> FALSE, prefix |-> 0, intact |-> TRUE,
     committed |-> FALSE, receipted |-> FALSE, useful |-> 0]

Held(d) ==
    IF d # root THEN kept[d]
    ELSE [profile |-> profile, accepted |-> accepted, prefix |-> prefix,
          intact |-> intact, committed |-> committed, receipted |-> receipted,
          useful |-> useful]

\* run_until_complete prepares the endpoints and calls run_contact.  After an
\* error, or once the receipt is reported, only a new call goes on, with a new
\* sender.  A plan opens the receiver in a full-restart directory, a number the
\* call has not used yet, reopens the persistent one or keeps the receiver; a
\* new call finds in all of them what the earlier ones left.
StartContact(budget, maximum, up, again, anew, where) ==
    /\ stage = "idle"
    /\ receipted \/ outcome \notin {"none", "report"} => anew = "call"
    /\ LET used == IF anew = "call" THEN {} ELSE opened IN
       /\ where \in used => where = root
       /\ opened' = used \union ({where} \intersect FullRestarts)
    /\ IF up /\ again = 0 /\ where = root THEN Spend(0) ELSE Spend(1)
    /\ remaining' = budget
    /\ limit' = maximum
    /\ connected' = up
    /\ replays' = again
    /\ sender' = IF anew = "on" THEN sender ELSE "Available"
    /\ root' = where
    /\ kept' = IF where = root THEN kept
               ELSE [kept EXCEPT ![root] = Held(root), ![where] = Fresh]
    /\ profile' = Held(where).profile
    /\ accepted' = Held(where).accepted
    /\ prefix' = Held(where).prefix
    /\ intact' = Held(where).intact
    /\ committed' = Held(where).committed
    /\ receipted' = Held(where).receipted
    /\ useful' = Held(where).useful
    /\ ledger' = [before |-> prefix', delivered |-> 0, duplicate |-> 0,
                  failures |-> 0]
    /\ stage' = Opening(profile', accepted')
    /\ outcome' = "none"
    /\ scope' = ScopeOf(0)
    /\ payload' = 0
    /\ UNCHANGED length

\* The negotiation a directory caches is past its expiry.
Expire(d) ==
    /\ stage = "idle"
    /\ Held(d).profile # None
    /\ Spend(1)
    /\ IF d = root
       THEN profile' = None /\ UNCHANGED kept
       ELSE kept' = [kept EXCEPT ![d].profile = None] /\ UNCHANGED profile
    /\ UNCHANGED <<length, stage, outcome, carrierVars, requestVars, sender,
                   storeVars, counters, root, opened>>

SendCapabilities ==
    /\ stage = "capabilities"
    /\ Submit(CapabilitiesSize,
              /\ Go("capabilities_reply")
              /\ UNCHANGED <<sender, profile, storeVars, counters>>,
              Pause, Broken)
    /\ UNCHANGED requestVars

\* Both sides offer the carrier's record limit: it is what negotiate selects
\* and persist_negotiation saves, or fails to save.
ReplyCapabilities ==
    /\ stage = "capabilities_reply"
    /\ \/ Submit(CapabilitiesSize,
                 /\ profile' = limit
                 /\ Go(Opening(limit, accepted))
                 /\ UNCHANGED <<sender, storeVars, counters>>,
                 Pause, Broken)
       \/ /\ Stumble(CapabilitiesSize)
          /\ profile' \in {profile, limit}
          /\ UNCHANGED <<sender, storeVars, counters>>
    /\ UNCHANGED requestVars

SendSummary ==
    /\ stage = "summary"
    /\ Submit(SummarySize,
              /\ Go("offer")
              /\ UNCHANGED <<sender, profile, storeVars, counters>>,
              Pause, Broken)
    /\ UNCHANGED requestVars

\* OFFER: the descriptor is durably accepted, unless the store fails, before
\* the sender's transition.
SendOffer ==
    /\ stage = "offer"
    /\ \/ Submit(OfferSize,
                 /\ accepted' = TRUE
                 /\ IF <<sender, "Offered">> \in Forward
                    THEN sender' = "Offered" /\ Go("verify_before")
                    ELSE sender' = sender /\ End("transition")
                 /\ UNCHANGED <<profile, prefix, intact, committed, receipted,
                                counters>>,
                 Pause, Broken)
       \/ /\ Stumble(OfferSize)
          /\ accepted' \in BOOLEAN
          /\ UNCHANGED <<sender, profile, prefix, intact, committed, receipted,
                         counters>>
    /\ UNCHANGED requestVars

\* Faulty variant: what is committed already is committed again.
VerifiesAgain == prefix = length

Verifies == ~committed /\ prefix = length

\* verify_staged_with and commit_verified, before the request and after the
\* data: an intact representation is committed and counted, a corrupt one is
\* quarantined.  A failing store may have committed without counting, or have
\* left the corrupt candidate where it was.
VerifyAndCommit ==
    /\ stage \in {"verify_before", "verify_after"}
    /\ LET next == IF stage = "verify_before" THEN "request" ELSE "receipt" IN
       \/ /\ ~Verifies
          /\ Go(next)
          /\ UNCHANGED <<prefix, intact, committed, counters, disturbances>>
       \/ /\ Verifies
          /\ intact
          /\ committed' = TRUE
          /\ useful' = useful + length
          /\ Go(next)
          /\ UNCHANGED <<prefix, intact, ledger, disturbances>>
       \/ /\ Verifies
          /\ ~intact
          /\ prefix' = 0
          /\ intact' = TRUE
          /\ ledger' = [ledger EXCEPT !.failures = @ + 1]
          /\ Go(next)
          /\ UNCHANGED <<committed, useful, disturbances>>
       \/ /\ Verifies
          /\ intact
          /\ committed' \in BOOLEAN
          /\ End("store")
          /\ Spend(1)
          /\ UNCHANGED <<prefix, intact, counters>>
       \/ /\ Verifies
          /\ ~intact
          /\ \/ prefix' = 0 /\ intact' = TRUE
             \/ UNCHANGED <<prefix, intact>>
          /\ End("store")
          /\ Spend(1)
          /\ UNCHANGED <<committed, counters>>
    /\ UNCHANGED <<carrierVars, requestVars, sender, profile, accepted,
                   receipted>>

\* Faulty variant: the request itself is not set aside.
PayloadWithoutRequest ==
    LET room == Least({EffectiveLimit, remaining}) - DataOverhead
    IN IF room < 0 THEN 0 ELSE Least({length - prefix, room})

\* The payload a request may ask for: what is missing, what a DATA record may
\* hold, what the budget leaves after the request (saturating subtractions).
PayloadLimit ==
    LET record == EffectiveLimit - DataOverhead
        budget == remaining - (RequestSize + DataOverhead)
        room == Least({record, budget})
    IN IF room < 0 THEN 0 ELSE Least({length - prefix, room})

\* BudgetScope::new, of a request for everything the carrier has left.
NewScope == ScopeOf(remaining)

\* BudgetScope::admit: a record that fits the total and its direction is
\* charged to both, any other to neither.
Admits(s, direction, size) ==
    \A d \in {"total", direction} : s.used[d] + size <= s.max[d]

\* Faulty variant: only the payload is charged.
ChargedPayload(s, direction, size) ==
    [s EXCEPT !.used = [d \in DOMAIN @ |->
        IF d \in {"total", direction} THEN @[d] + payload ELSE @[d]]]

Charged(s, direction, size) ==
    [s EXCEPT !.used = [d \in DOMAIN @ |->
        IF d \in {"total", direction} THEN @[d] + size ELSE @[d]]]

\* RepresentationDataRequest::validate with its one selection.
RequestValid(offset, desired) == desired > 0 /\ offset + desired <= length

\* REQUEST: the accepted budget is what the carrier has left, request included;
\* a carrier with nothing left already refuses the placeholder that is sized
\* before it, and the contact fails.
SendRequest ==
    /\ stage = "request"
    /\ LET wanted == ~committed /\ PayloadLimit > 0
           valid == RequestValid(prefix, PayloadLimit)
           admitted == Admits(NewScope, "receiver_to_sender", RequestSize) IN
       \/ /\ ~committed /\ remaining = 0
          /\ Leave("request")
          /\ UNCHANGED <<carrierVars, requestVars, disturbances>>
       \/ /\ committed \/ remaining > 0
          /\ wanted => valid /\ ~admitted
          /\ Go("verify_after")
          /\ UNCHANGED <<carrierVars, requestVars, sender, profile, storeVars,
                         counters, disturbances>>
       \/ /\ wanted /\ (valid => admitted)
          /\ IF valid
             THEN /\ scope' =
                       Charged(NewScope, "receiver_to_sender", RequestSize)
                  /\ payload' = PayloadLimit
                  /\ Submit(RequestSize,
                       /\ IF sender \in {"Available", "Offered", "Sending"}
                          THEN sender' = "Sending" /\ Go("data")
                          ELSE sender' = sender /\ End("transition")
                       /\ UNCHANGED <<profile, storeVars, counters>>,
                       Pause, Broken)
                  /\ UNCHANGED replays
             ELSE /\ Leave("request")
                  /\ UNCHANGED <<carrierVars, requestVars, disturbances>>

DataSize == DataOverhead + payload

DataAdmitted == Admits(scope, "sender_to_receiver", DataSize)

DataCharged == Charged(scope, "sender_to_receiver", DataSize)

\* Payload octets the strict decoder lets through, and those of them that
\* accept_data finds durable already.
Arrived == [ledger EXCEPT !.delivered = @ + payload]

\* Faulty variant: accept_data's outcome is ignored.
ReplayedUncounted == Arrived

Replayed == [ledger EXCEPT !.delivered = @ + payload, !.duplicate = @ + payload]

\* DATA: delivered exact or corrupt, or truncated and refused by the strict
\* decoder, or missed.  Accepting may fail with or without the octets kept.
SendData ==
    /\ stage = "data"
    /\ IF DataAdmitted
       THEN /\ scope' = DataCharged
            /\ \/ Submit(DataSize,
                      /\ prefix' = prefix + payload
                      /\ ledger' = Arrived
                      /\ Go("replay")
                      /\ UNCHANGED <<sender, profile, accepted, intact,
                                     committed, receipted, useful>>,
                      /\ Go("verify_after")
                      /\ UNCHANGED <<sender, profile, storeVars, counters>>,
                      Broken)
               \/ /\ Admitted(DataSize)
                  /\ connected
                  /\ Spend(1)
                  /\ remaining' = remaining - DataSize
                  /\ \/ /\ prefix' = prefix + payload
                        /\ intact' = FALSE
                        /\ ledger' = Arrived
                        /\ Go("replay_corrupt")
                     \/ /\ UNCHANGED <<prefix, intact, ledger>>
                        /\ Go("verify_after")
                     \/ \E stored \in 0 .. payload :
                          /\ prefix' = prefix + stored
                          /\ \/ intact' = intact
                             \/ stored > 0 /\ intact' = FALSE
                          /\ UNCHANGED ledger
                          /\ End("store")
                  /\ UNCHANGED <<limit, connected, sender, profile, accepted,
                                 committed, receipted, useful>>
       ELSE /\ Go("verify_after")
            /\ UNCHANGED <<carrierVars, scope, sender, profile, storeVars,
                           counters, disturbances>>
    /\ UNCHANGED <<payload, replays>>

\* The same DATA record again: a duplicate of what is staged, or, when the
\* first copy was corrupted, a conflict.  A replay that is not delivered is
\* followed by the next one.
ReplayData ==
    /\ stage \in {"replay", "replay_corrupt"}
    /\ IF replays > 0 /\ DataAdmitted
       THEN /\ scope' = DataCharged
            /\ replays' = replays - 1
            /\ Submit(DataSize,
                      /\ IF stage = "replay"
                         THEN Go(stage) /\ ledger' = Replayed
                         ELSE End("conflict") /\ UNCHANGED ledger
                      /\ UNCHANGED <<sender, profile, storeVars, useful>>,
                      /\ Go(stage)
                      /\ UNCHANGED <<sender, profile, storeVars, counters>>,
                      Broken)
       ELSE /\ Go("verify_after")
            /\ UNCHANGED <<carrierVars, scope, replays, sender, profile,
                           storeVars, counters, disturbances>>
    /\ UNCHANGED payload

\* Faulty variants: the commitment is not asked for; a receipt is
\* only sent by the contact that sent the data.
ReceiptsUnasked == ~receipted
ReceiptsOnce == committed /\ ~receipted /\ sender = "Sending"

Receipts == committed /\ ~receipted

Awaiting == IF sender = "Sending" THEN "AwaitingReceipt" ELSE sender

\* Faulty variant: the sender counts on a receipt the receiver failed to keep.
ReceiptPresumed == "Receipted"

SenderAfterFailure == Awaiting

\* RECEIPT: the receiver retains the receipt once it is delivered; then the
\* sender takes note.
SendReceipt ==
    /\ stage = "receipt"
    /\ LET waiting(how) ==
             /\ sender' = Awaiting
             /\ End(how)
             /\ UNCHANGED <<profile, storeVars, counters>> IN
       \/ /\ ~Receipts
          /\ Pause
          /\ UNCHANGED <<carrierVars, disturbances>>
       \/ /\ Receipts
          /\ Submit(ReceiptSize,
                    /\ receipted' = TRUE
                    /\ sender' = IF Awaiting = "AwaitingReceipt"
                                 THEN "Receipted" ELSE Awaiting
                    /\ End("report")
                    /\ UNCHANGED <<profile, accepted, prefix, intact, committed,
                                   counters>>,
                    waiting("report"), waiting("disconnected"))
       \/ /\ Receipts
          /\ Stumble(ReceiptSize)
          /\ receipted' \in BOOLEAN
          /\ sender' = SenderAfterFailure
          /\ UNCHANGED <<profile, accepted, prefix, intact, committed, counters>>
    /\ UNCHANGED requestVars

-----------------------------------------------------------------------------
Init ==
    /\ length \in Lengths
    /\ stage = "idle"
    /\ outcome = "none"
    /\ remaining = 0
    /\ limit = 1
    /\ connected = FALSE
    /\ scope = ScopeOf(0)
    /\ payload = 0
    /\ replays = 0
    /\ sender = "Available"
    /\ profile = None
    /\ accepted = FALSE
    /\ prefix = 0
    /\ intact = TRUE
    /\ committed = FALSE
    /\ receipted = FALSE
    /\ useful = 0
    /\ ledger = [before |-> 0, delivered |-> 0, duplicate |-> 0, failures |-> 0]
    /\ root = "persistent"
    /\ opened = {}
    /\ kept = [d \in Directories |-> Fresh]
    /\ disturbances = 0

Step ==
    /\ UNCHANGED <<length, rootVars>>
    /\ \/ SendCapabilities
       \/ ReplyCapabilities
       \/ SendSummary
       \/ SendOffer
       \/ VerifyAndCommit
       \/ SendRequest
       \/ SendData
       \/ ReplayData
       \/ SendReceipt

\* How a contact begins: in the same call, with the sender restarted, or in a
\* new call.
Anew == {"on", "sender", "call"}

Next ==
    \/ \E budget \in Budgets, maximum \in RecordLimits, up \in Connections,
          again \in 0 .. MaxReplays, anew \in Anew, where \in Directories :
          StartContact(budget, maximum, up, again, anew, where)
    \/ \E d \in Directories : Expire(d)
    \/ Step

Spec == Init /\ [][Next]_vars

\* A contact that has begun runs to its end; however poor the other contacts
\* are, again and again there is one with the largest budget.
FairSpec ==
    /\ Spec
    /\ WF_vars(Step)
    /\ SF_vars(\E budget \in Budgets, maximum \in RecordLimits, anew \in Anew :
                 /\ \A b \in Budgets : b <= budget
                 /\ StartContact(budget, maximum, TRUE, 0, anew, root))

-----------------------------------------------------------------------------
(* Properties.                                                             *)

ProgressTypes ==
    /\ stage \in {"idle", "capabilities", "capabilities_reply", "summary",
                  "offer", "verify_before", "request", "data", "replay",
                  "replay_corrupt", "verify_after", "receipt"}
    /\ outcome \in {"none", "report", "disconnected", "request", "transition",
                    "conflict", "store"}

CarrierTypes ==
    /\ remaining \in Nat
    /\ limit \in Nat
    /\ connected \in BOOLEAN

RequestTypes ==
    /\ scope \in [max : [Scopes -> Nat], used : [Scopes -> Nat]]
    /\ payload \in 0 .. length
    /\ replays \in 0 .. MaxReplays

EndpointTypes ==
    /\ length \in Lengths
    /\ sender \in {"Available", "Offered", "Requested", "Sending",
                   "AwaitingReceipt", "Receipted"}
    /\ profile \in Nat \union {None}

StoreTypes ==
    /\ accepted \in BOOLEAN
    /\ prefix \in 0 .. length
    /\ intact \in BOOLEAN
    /\ committed \in BOOLEAN
    /\ receipted \in BOOLEAN

CounterTypes ==
    /\ useful \in Nat
    /\ ledger \in [before : 0 .. length, delivered : Nat, duplicate : Nat,
                   failures : 0 .. 2]
    /\ disturbances \in 0 .. MaxDisturbances

Stores ==
    [profile : Nat \union {None}, accepted : BOOLEAN, prefix : 0 .. length,
     intact : BOOLEAN, committed : BOOLEAN, receipted : BOOLEAN, useful : Nat]

RootTypes ==
    /\ root \in Directories
    /\ opened \subseteq FullRestarts
    /\ kept \in [Directories -> Stores]

TypeOK ==
    /\ ProgressTypes /\ CarrierTypes /\ RequestTypes
    /\ EndpointTypes /\ StoreTypes /\ CounterTypes /\ RootTypes

\* A request only asks for what this contact can still carry: when the DATA
\* record it authorized is due, its scope, the carrier and the ceiling
\* negotiated in whatever earlier contact all admit it.
RequestLeavesRoom == stage = "data" => DataAdmitted /\ Admitted(DataSize)

\* The budget scope is never looser than the carrier: what is left of it is
\* exactly what the carrier has left, and it is never overdrawn.
ScopeTracksCarrier ==
    stage \in {"data", "replay", "replay_corrupt"} =>
        scope.max["total"] - scope.used["total"] = remaining

\* A receipt is only retained for committed bytes, though the store itself
\* does not ask; and only an intact representation is ever committed.
ReceiptAfterCommit ==
    /\ receipted => committed
    /\ committed => accepted /\ intact /\ prefix = length

\* The sender never believes more than a receiver holds: through losses,
\* restarts, changes of directory and failing stores, a sender that awaits a
\* receipt has committed bytes to show for it in some directory, and one that
\* has it a retained receipt.
SenderNeverAhead ==
    /\ sender = "AwaitingReceipt" => \E d \in Directories : Held(d).committed
    /\ sender = "Receipted" => \E d \in Directories : Held(d).receipted

\* Committed octets are counted as useful at most once over all contacts.
UsefulCountedOnce == useful \in {0, length} /\ (useful > 0 => committed)

Balanced ==
    LET gained == ledger.delivered - ledger.duplicate IN
    /\ ledger.failures = 0 => prefix = ledger.before + gained
    /\ ledger.failures = 1 => prefix \in {0, gained}
    /\ ledger.failures = 2 => prefix = 0

\* The report of a contact accounts for the receiver's prefix: it grew by the
\* payload octets delivered less the duplicates, from where it was or, when a
\* complete candidate was refused, from nothing, unless a second one was.
ReportBalances == stage = "idle" /\ outcome = "report" => Balanced

\* No series of contacts drives the sender into a transition its state machine
\* refuses ("sender-only, receiver-only, both, cold, and full restarts").
SenderTransitionsLegal == outcome # "transition"

\* "Contact loss and budget exhaustion remain resumable simulator pauses": no
\* contact that loses its carrier ends in an error.
ContactLossPauses == outcome # "disconnected"

\* The receipt of an offered representation is eventually retained, whatever
\* finite number of contacts is lost, corrupted or failing.
EventuallyReceipted == <>receipted
=============================================================================
