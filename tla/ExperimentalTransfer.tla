------------------------ MODULE ExperimentalTransfer ------------------------
(***************************************************************************)
(* The generation-0 profile: run_contact of crates/bempic-sim/src/lib.rs   *)
(* moves one representation over a carrier into the FileStore of           *)
(* crates/bempic-store/src/lib.rs, which is reopened before every contact. *)
(*                                                                         *)
(* A step is one durable write or one record, so that a crash may come     *)
(* between any two.  An octet is its position; 0 is an octet the source or *)
(* the carrier got wrong.  A file is << >> when it is absent, else <<its   *)
(* content>>.  Record sizes are the real ones of the "B0" encoding.        *)
(***************************************************************************)
EXTENDS Naturals, Sequences, FiniteSets

CONSTANTS
    Size,           \* the representation's length
    Contacts,       \* the contacts a run may be given: see ContactsAssumption
    MaxFaults       \* bound on crashes, redelivered records and wrong sources

\* disconnects is disconnect_after_ms: never, at some point, or at time 0.
ASSUME ContactsAssumption ==
    /\ Size \in Nat
    /\ MaxFaults \in Nat
    /\ Contacts \subseteq [budget : Nat, limit : Nat \ {0}, exact : BOOLEAN,
                           disconnects : {"never", "later", "at_once"}]

Representation == [i \in 1 .. Size |-> i]

U16Max == 65535
MaxOperationRecordSize == 5 + U16Max

\* The complete records, envelope included, and the overhead of a DATA record.
RecordOctets ==
    [SenderCapabilities |-> 5 + 4, ReceiverCapabilities |-> 5 + 4,
     Summary |-> 5 + 24, Offer |-> 5 + 73, Receipt |-> 5 + 49]
RequestOctets == 5 + 28
DataRecordOverhead == 5 + 16 + 8

\* The phases of a contact before any data, in the order it takes them.
Control == [SenderCapabilities |-> 1, ReceiverCapabilities |-> 2, Summary |-> 3, Offer |-> 4]
CapabilityFlags == {"SenderCapabilities", "ReceiverCapabilities"}
Flags == DOMAIN RecordOctets
Statuses == {"Empty", "Offered", "Partial", "CompleteUnverified", "Verified", "Complete"}

NoCeiling == 0

Smaller(a, b) == IF a <= b THEN a ELSE b
Minus(a, b) == IF a <= b THEN 0 ELSE a - b

VARIABLES
    saved,          \* the state file: State of the store
    part,           \* the staging file
    complete,       \* the committed file
    state,          \* the open store's State
    step,           \* what the contact does next; "closed" between contacts
    contact,        \* the contact's parameters
    spent,          \* octets of the contact's budget already used
    asked,          \* the range in flight, and the step that follows it
    sent,           \* the DATA records a carrier could deliver again
    useful,         \* useful_committed_bytes over all contacts
    faults

disk == <<saved, part, complete>>
vars == <<disk, state, step, contact, spent, asked, sent, useful, faults>>

Content(file) == IF file = << >> THEN << >> ELSE file[1]

Fresh == [ceiling |-> NoCeiling, phases |-> {}, status |-> "Empty", accepted |-> 0]

\* A state file from before the ceiling was kept.
Legacy == [Fresh EXCEPT !.phases = CapabilityFlags]

NothingAsked == [offset |-> 0, octets |-> << >>, next |-> "closed"]

Init ==
    /\ saved \in {<< >>, <<Legacy>>}
    /\ part = << >>
    /\ complete = << >>
    /\ state = Fresh
    /\ step = "closed"
    /\ contact \in Contacts
    /\ spent = 0
    /\ asked = NothingAsked
    /\ sent = {}
    /\ useful = 0
    /\ faults = 0

Save(s) == saved' = <<s>> /\ state' = s

---------------------------------------------------------------------------
(* Opening.                                                                *)

KeepLegacyPhases(s) == s

\* Capabilities without a ceiling are exchanged again.
RepeatLegacyCapabilities(s) ==
    IF s.ceiling = NoCeiling THEN [s EXCEPT !.phases = @ \ CapabilityFlags] ELSE s

ReconciledStatus(s, actual) ==
    IF actual = Size
    THEN IF s.status = "Verified" THEN "Verified" ELSE "CompleteUnverified"
    ELSE IF actual > 0 THEN "Partial"
    ELSE IF s.status = "Offered" THEN "Offered" ELSE "Empty"

\* reconcile: the files decide, not the state that was saved.
Reconciled ==
    LET s == RepeatLegacyCapabilities(IF saved = << >> THEN Fresh ELSE saved[1])
        actual == Len(Content(part))
    IN  IF complete # << >>
        THEN [s EXCEPT !.status = "Complete", !.accepted = Size]
        ELSE [s EXCEPT !.status = ReconciledStatus(s, actual), !.accepted = actual]

\* What makes open fail instead.
ReconcileFails ==
    \/ complete # << >> /\ complete[1] # Representation
    \/ /\ complete = << >>
       /\ Reconciled.status = "Verified"
       /\ Content(part) # Representation

\* FileStore::open, then the start of run_contact.
Open(c) ==
    /\ step = "closed"
    /\ ~ReconcileFails
    /\ c.exact \/ faults < MaxFaults
    /\ Save(Reconciled)
    /\ contact' = c
    /\ spent' = 0
    /\ faults' = IF c.exact THEN faults ELSE faults + 1
    /\ step' = "contact"
    /\ UNCHANGED <<part, complete, asked, sent, useful>>

IsComplete == state.status = "Complete" /\ complete # << >>

---------------------------------------------------------------------------
(* Records.                                                                *)

AdvertisedRecordLimit == Smaller(contact.limit, U16Max)

EffectiveRecordLimit ==
    Smaller(contact.limit,
            Smaller(IF state.ceiling = NoCeiling THEN MaxOperationRecordSize
                    ELSE state.ceiling,
                    MaxOperationRecordSize))

Fits(octets) ==
    /\ octets <= EffectiveRecordLimit
    /\ octets <= contact.budget - spent

\* A record that fits is presented to the carrier, and arrives.
Delivered(octets) ==
    /\ Fits(octets)
    /\ contact.disconnects # "at_once"
    /\ spent' = spent + octets

\* A phase the contact still has to go through, and the first such.
Missing(f) == f \notin state.phases /\ (f = "Offer" => ~IsComplete)

Due(f) == Missing(f) /\ \A g \in DOMAIN Control : Control[g] < Control[f] => ~Missing(g)

Negotiated == \A f \in DOMAIN Control : ~Missing(f)

\* mark.
Marked(f) ==
    [state EXCEPT !.phases = @ \cup {f},
                  !.status = IF f = "Offer" /\ @ = "Empty" THEN "Offered" ELSE @]

\* persist_negotiated_max_record_size, the first of two durable steps.
ExchangeCapabilities(f) ==
    /\ step = "contact"
    /\ f \in CapabilityFlags
    /\ Due(f)
    /\ Delivered(RecordOctets[f])
    /\ Save([state EXCEPT !.ceiling =
                IF @ = NoCeiling THEN AdvertisedRecordLimit
                ELSE Smaller(@, AdvertisedRecordLimit)])
    /\ step' = "mark"
    /\ UNCHANGED <<part, complete, contact, asked, sent, useful, faults>>

MarkCapabilities ==
    /\ step = "mark"
    /\ \E f \in CapabilityFlags : Due(f) /\ Save(Marked(f))
    /\ step' = "contact"
    /\ UNCHANGED <<part, complete, contact, spent, asked, sent, useful, faults>>

Inform(f) ==
    /\ step = "contact"
    /\ f \in (DOMAIN Control) \ CapabilityFlags
    /\ Due(f)
    /\ Delivered(RecordOctets[f])
    /\ Save(Marked(f))
    /\ UNCHANGED <<part, complete, step, contact, asked, sent, useful, faults>>

\* The payload a request asks for.
PayloadLimitWithoutRequest ==
    Smaller(Size - state.accepted,
            Smaller(Minus(contact.budget - spent, DataRecordOverhead),
                    Minus(EffectiveRecordLimit, DataRecordOverhead)))

PayloadLimit ==
    Smaller(Size - state.accepted,
            Smaller(Minus(contact.budget - spent, RequestOctets + DataRecordOverhead),
                    Minus(EffectiveRecordLimit, DataRecordOverhead)))

Request ==
    /\ step = "contact"
    /\ Negotiated
    /\ ~IsComplete
    /\ PayloadLimit > 0
    /\ Delivered(RequestOctets)
    /\ asked' = [offset |-> state.accepted,
                 octets |-> [i \in 1 .. PayloadLimit |->
                                IF contact.exact THEN state.accepted + i ELSE 0],
                 next |-> "closed"]
    /\ step' = "data"
    /\ UNCHANGED <<disk, state, contact, sent, useful, faults>>

SendData ==
    /\ step = "data"
    /\ Delivered(DataRecordOverhead + Len(asked.octets))
    /\ sent' = sent \cup {[offset |-> asked.offset, octets |-> asked.octets]}
    /\ step' = "append"
    /\ UNCHANGED <<disk, state, contact, asked, useful, faults>>

ReceiptDueWhenStaged == state.accepted = Size /\ "Receipt" \notin state.phases

ReceiptDue == IsComplete /\ "Receipt" \notin state.phases

SendReceipt ==
    /\ step = "contact"
    /\ Negotiated
    /\ ReceiptDue
    /\ Delivered(RecordOctets.Receipt)
    /\ Save(Marked("Receipt"))
    /\ step' = "closed"
    /\ UNCHANGED <<part, complete, contact, asked, sent, useful, faults>>

---------------------------------------------------------------------------
(* The store's data path.                                                  *)

\* accept_data: the octets past those already held, when the others agree.
NewOctets(d) == SubSeq(d.octets, state.accepted - d.offset + 1, Len(d.octets))

AppendsTo(d) ==
    /\ ~IsComplete
    /\ d.offset <= state.accepted
    /\ state.accepted < d.offset + Len(d.octets)
    /\ \A i \in (d.offset + 1) .. state.accepted : Content(part)[i] = d.octets[i - d.offset]

AppendSuffix ==
    /\ step = "append"
    /\ AppendsTo(asked)
    /\ part' = <<Content(part) \o NewOctets(asked)>>
    /\ step' = "appended"
    /\ UNCHANGED <<saved, complete, state, contact, spent, asked, sent, useful, faults>>

\* Only once the octets are durable is the progress saved.  The contact ends
\* unless they were the last; another caller's store stays open.
SaveAppend ==
    LET accepted == state.accepted + Len(NewOctets(asked))
    IN  /\ step = "appended"
        /\ Save([state EXCEPT !.accepted = accepted,
                              !.status = IF accepted = Size THEN "CompleteUnverified"
                                         ELSE "Partial"])
        /\ step' = IF accepted = Size THEN "contact" ELSE asked.next
        /\ UNCHANGED <<part, complete, contact, spent, asked, sent, useful, faults>>

\* An earlier DATA record reaches the open store again; one that overlaps in
\* other octets, leaves a gap or adds nothing is refused without effect.
Redeliver(d) ==
    /\ step = "contact"
    /\ faults < MaxFaults
    /\ AppendsTo(d)
    /\ asked' = [offset |-> d.offset, octets |-> d.octets, next |-> "contact"]
    /\ step' = "append"
    /\ faults' = faults + 1
    /\ UNCHANGED <<disk, state, contact, spent, sent, useful>>

MayVerifyAgain == Negotiated /\ state.accepted = Size

MayVerifyUnverified ==
    Negotiated /\ ~IsComplete /\ state.status = "CompleteUnverified"

MayVerify == Negotiated /\ ~IsComplete /\ state.accepted = Size

Unchecked(octets) == Len(octets) = Size

Exact(octets) == octets = Representation

\* verify_staged of a candidate whose digest agrees.
VerifyStaged ==
    /\ step = "contact"
    /\ MayVerify
    /\ Exact(IF complete # << >> THEN complete[1] ELSE Content(part))
    /\ Save([state EXCEPT !.status = "Verified"])
    /\ step' = "commit"
    /\ UNCHANGED <<part, complete, contact, spent, asked, sent, useful, faults>>

\* Of one whose digest differs: the file is put aside, then the state is saved.
Quarantine ==
    /\ step = "contact"
    /\ MayVerify
    /\ ~Exact(Content(part))
    /\ part' = << >>
    /\ step' = "quarantined"
    /\ UNCHANGED <<saved, complete, state, contact, spent, asked, sent, useful, faults>>

SaveQuarantine ==
    /\ step = "quarantined"
    /\ Save([state EXCEPT !.accepted = 0, !.status = "Offered", !.phases = @ \ {"Receipt"}])
    /\ step' = "closed"
    /\ UNCHANGED <<part, complete, contact, spent, asked, sent, useful, faults>>

\* commit_verified: the rename is the commit, the state follows.
Commit ==
    /\ step = "commit"
    /\ part' = << >>
    /\ complete' = IF complete = << >> THEN <<Content(part)>> ELSE complete
    /\ step' = "renamed"
    /\ UNCHANGED <<saved, state, contact, spent, asked, sent, useful, faults>>

SaveCommit ==
    /\ step = "renamed"
    /\ Save([state EXCEPT !.accepted = Size, !.status = "Complete"])
    /\ useful' = useful + Size
    /\ step' = "contact"
    /\ UNCHANGED <<part, complete, contact, spent, asked, sent, faults>>

---------------------------------------------------------------------------
(* Endings.                                                                *)

\* The record a contact would send next.
Wanted ==
    IF step = "data" THEN DataRecordOverhead + Len(asked.octets)
    ELSE IF Negotiated
    THEN IF IsComplete THEN RecordOctets.Receipt ELSE RequestOctets
    ELSE RecordOctets[CHOOSE f \in DOMAIN Control : Due(f)]

NothingToSend ==
    /\ step = "contact"
    /\ Negotiated
    /\ IF IsComplete THEN ~ReceiptDue ELSE PayloadLimit = 0

\* Nothing left to send, no room for it, or the carrier disconnects under it.
EndContact ==
    /\ step \in {"contact", "data"}
    /\ step = "contact" => ~MayVerify
    /\ \/ NothingToSend
       \/ ~Fits(Wanted)
       \/ contact.disconnects # "never"
    /\ step' = "closed"
    /\ UNCHANGED <<disk, state, contact, spent, asked, sent, useful, faults>>

Crash ==
    /\ step # "closed"
    /\ faults < MaxFaults
    /\ step' = "closed"
    /\ faults' = faults + 1
    /\ UNCHANGED <<disk, state, contact, spent, asked, sent, useful>>

\* A crash inside the append leaves any part of it in the file.
TornAppend ==
    /\ step = "append"
    /\ AppendsTo(asked)
    /\ faults < MaxFaults
    /\ \E n \in 1 .. (Len(NewOctets(asked)) - 1) :
          part' = <<Content(part) \o SubSeq(NewOctets(asked), 1, n)>>
    /\ step' = "closed"
    /\ faults' = faults + 1
    /\ UNCHANGED <<saved, complete, state, contact, spent, asked, sent, useful>>

Proceed ==
    \/ \E f \in CapabilityFlags : ExchangeCapabilities(f)
    \/ MarkCapabilities
    \/ \E f \in DOMAIN Control : Inform(f)
    \/ Request
    \/ SendData
    \/ SendReceipt
    \/ AppendSuffix
    \/ SaveAppend
    \/ VerifyStaged
    \/ Quarantine
    \/ SaveQuarantine
    \/ Commit
    \/ SaveCommit
    \/ EndContact

Next ==
    \/ \E c \in Contacts : Open(c)
    \/ Proceed
    \/ \E d \in sent : Redeliver(d)
    \/ Crash
    \/ TornAppend

Spec == Init /\ [][Next]_vars

\* A contact that fits an OFFER, has budget for every record and does not
\* disconnect.
Workable(c) ==
    /\ c.exact
    /\ c.disconnects = "never"
    /\ c.limit >= RecordOctets.Offer
    /\ c.budget >= 300

\* An open contact runs to its end, and workable contacts recur.
FairSpec ==
    /\ Spec
    /\ WF_vars(Proceed)
    /\ SF_vars(\E c \in Contacts : Workable(c) /\ Open(c))

---------------------------------------------------------------------------

StateType ==
    [ceiling : Nat, phases : SUBSET Flags, status : Statuses, accepted : 0 .. Size]

InsideRepresentation(d) ==
    /\ d.offset \in 0 .. Size
    /\ d.octets \in Seq(0 .. Size)
    /\ d.offset + Len(d.octets) <= Size

\* A file is absent or has one content; a DATA record ends inside the
\* representation, and so does the staging file.
TypeOK ==
    /\ saved \in Seq(StateType) /\ Len(saved) <= 1
    /\ part \in Seq(Seq(0 .. Size)) /\ Len(part) <= 1 /\ Len(Content(part)) <= Size
    /\ complete \in Seq(Seq(0 .. Size)) /\ Len(complete) <= 1
    /\ state \in StateType
    /\ step \in {"closed", "contact", "mark", "data", "append", "appended",
                 "quarantined", "commit", "renamed"}
    /\ contact \in Contacts
    /\ spent \in 0 .. contact.budget
    /\ InsideRepresentation(asked) /\ asked.next \in {"closed", "contact"}
    /\ \A d \in sent : InsideRepresentation(d)
    /\ useful \in Nat
    /\ faults \in 0 .. MaxFaults

\* The application is told "stored" only of octets that are durably committed,
\* exact, and stay so through every later crash.
ReceiptAfterCommit ==
    saved # << >> =>
        ("Receipt" \in saved[1].phases => complete = <<Representation>>)

\* Octets are counted as useful once however often the store is reopened,
\* verified again or interrupted between the rename and the save.
UsefulOnce == useful <= Size

\* A request never spends what its own answer needs: once it is delivered the
\* DATA record fits the ceiling and the budget that are left.
RequestLeavesRoom ==
    step = "data" => Fits(DataRecordOverhead + Len(asked.octets))

\* An open contact that is past the phase Negotiated has a ceiling agreed with
\* the peer in the durable state, also after a state file that never kept one.
CeilingBeforeData ==
    step # "closed" /\ Negotiated => state.ceiling # NoCeiling

\* FileStore keeps the promise of the representation stores: the prefix only
\* grows, only a full and wrong candidate is thrown away, and one atomic commit
\* is of exactly the prepared octets.
Transfer ==
    INSTANCE DurableTransfer WITH
        Octets    <- 0 .. Size,
        Encoded   <- Representation,
        Decodes   <- TRUE,
        Receipts  <- {"stored"},
        accepted  <- saved # << >> /\ "Offer" \in saved[1].phases,
        staged    <- IF complete # << >> THEN complete[1] ELSE Content(part),
        committed <- complete # << >>,
        receipts  <- IF saved # << >> /\ "Receipt" \in saved[1].phases
                     THEN {"stored"} ELSE {}

ImplementsTransfer == Transfer!Spec

\* The ceiling only narrows: one below an OFFER is there for good.
TooNarrow ==
    /\ saved # << >>
    /\ saved[1].ceiling \notin {NoCeiling} \cup (RecordOctets.Offer .. U16Max)

\* When workable contacts recur the transfer ends with its receipt, whatever
\* the crashes, torn appends, wrong octets and broken contacts before; the one
\* thing that stops it for good is a contact narrower than an OFFER that got
\* through the capability exchange.
EventuallyReceipted ==
    <>(saved # << >> /\ ("Receipt" \in saved[1].phases \/ TooNarrow))

=============================================================================
