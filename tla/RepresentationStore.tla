------------------------ MODULE RepresentationStore ------------------------
(***************************************************************************)
(* The v0.1 representation store (bempic-store/src/v01_representation.rs): *)
(* one descriptor, two copy-on-write state slots, a staging file (.part)   *)
(* and a complete file.                                                    *)
(*                                                                         *)
(* An operation is one action when it reaches a single durable boundary.   *)
(* An operation that changes a file and then saves the state has two       *)
(* steps, because the process may stop in between; pc names the boundary   *)
(* it last reached, and until the operation has returned no other          *)
(* operation can start.  A call that returns without changing anything     *)
(* (a refused argument, a duplicate, a replay) is a stuttering step.       *)
(*                                                                         *)
(* A state slot is written to a temporary file and renamed into place, so  *)
(* a slot is either the old state or the new one.  A slot that was never   *)
(* written reads as State::new.  An integrity check compares a digest of   *)
(* the bytes with the descriptor: here it compares the bytes.  Quarantined *)
(* bytes are never read again and are not kept in the model.               *)
(***************************************************************************)
EXTENDS Integers, Sequences, FiniteSets

CONSTANTS
    Octets,           \* values one payload octet may take
    Encoded,          \* the exact prepared bytes the descriptor binds
    Decodes,          \* does the deterministic decode validator accept Encoded?
    Receipts,         \* receipt idempotency IDs
    NoFile,           \* a path that does not exist
    RetryInPlace,     \* may the caller go on using a store that returned Err?
    MaxSequence,      \* stands for u64::MAX of State::sequence
    MaxDisturbances   \* bound: crashes, failed calls, bad payloads, repeats

ASSUME ConstantsAssumption ==
    /\ Encoded \in Seq(Octets)
    /\ Decodes \in BOOLEAN
    /\ RetryInPlace \in BOOLEAN
    /\ NoFile \notin Seq(Octets)
    /\ MaxSequence \in Nat
    /\ MaxDisturbances \in Nat

VARIABLES
    slots,            \* the two state files
    part,             \* staging file
    complete,         \* committed file
    mem,              \* RepresentationStore::state of the open handle
    pc,               \* "closed", "idle", or the boundary just reached
    accepted_octets,  \* octets appended by the accept_data call in progress
    disturbances      \* disturbances so far (bound only)

diskVars == <<slots, part, complete>>
vars == <<slots, part, complete, mem, pc, accepted_octets, disturbances>>

-----------------------------------------------------------------------------
(* State files.                                                            *)

L == Len(Encoded)

Status ==
    {"Absent", "Offered", "Partial", "CompleteUnverified", "Verified",
     "Committed"}

State ==
    [sequence : 0 .. MaxSequence,
     status : Status,
     durable_prefix_octets : 0 .. L,
     receipt_ids : SUBSET Receipts]

Fresh ==
    [sequence |-> 0,
     status |-> "Absent",
     durable_prefix_octets |-> 0,
     receipt_ids |-> {}]

\* State s moved to another status and prefix.
Moved(s, status, octets) ==
    [s EXCEPT !.status = status, !.durable_prefix_octets = octets]

Bytes(file) == IF file = NoFile THEN << >> ELSE file

\* The state a reopening starts from: the slot with the highest sequence.
Latest ==
    IF slots[0].sequence > slots[1].sequence THEN slots[0] ELSE slots[1]

\* Faulty variant: the digest is not compared.
AcceptsLength(bytes) == Len(bytes) = L /\ Decodes

\* PreparedRepresentation::verify and the decode validator, on given bytes.
Accepts(bytes) == bytes = Encoded /\ Decodes

\* Status of an accepted, uncommitted representation holding n octets.
Received(n) == IF n = L THEN "CompleteUnverified" ELSE "Partial"

\* The errors reconcile can return: a complete file that fails verification,
\* a staging file longer than the descriptor, staged bytes nobody accepted.
Recoverable(s) ==
    IF complete # NoFile
    THEN complete = Encoded
    ELSE /\ Len(Bytes(part)) <= L
         /\ s.status = "Absent" => Bytes(part) = << >>

\* What reconcile makes of state s, given the files that survived.
HeldOctets == IF complete # NoFile THEN L ELSE Len(Bytes(part))

\* Faulty variant: reopening forgets a verification.
ReconciledStatusForgetful(s) ==
    IF complete # NoFile THEN "Committed"
    ELSE IF s.status = "Absent" THEN "Absent" ELSE Received(HeldOctets)

ReconciledStatus(s) ==
    CASE complete # NoFile -> "Committed"
      [] complete = NoFile /\ s.status = "Absent" -> "Absent"
      [] complete = NoFile /\ s.status = "Verified" /\ HeldOctets = L ->
            "Verified"
      [] complete = NoFile /\ s.status # "Absent" /\ HeldOctets = 0 /\ L > 0 ->
            "Offered"
      [] OTHER -> Received(HeldOctets)

Reconciled(s) == Moved(s, ReconciledStatus(s), HeldOctets)

\* snapshot() and has_receipt: all a caller can see of a state.
Snapshot(s) ==
    [descriptor_accepted |-> s.status # "Absent",
     durable_prefix_octets |-> s.durable_prefix_octets,
     verified |-> s.status \in {"Verified", "Committed"},
     committed |-> s.status = "Committed",
     receipt_ids |-> s.receipt_ids]

-----------------------------------------------------------------------------
(* Saving, failing, stopping.                                              *)

Spend(n) ==
    /\ disturbances + n <= MaxDisturbances
    /\ disturbances' = disturbances + n

\* A call returns Err with s in the handle.  A caller that follows the
\* documented recovery drops the handle and reopens.
Raise(s) ==
    IF RetryInPlace
    THEN pc' = "idle" /\ mem' = s
    ELSE pc' = "closed" /\ mem' = Fresh

Persisted(s) == [s EXCEPT !.sequence = @ + 1]

Written(s) == [slots EXCEPT ![(s.sequence + 1) % 2] = Persisted(s)]

\* save() as the last step of an operation that already put s in the handle:
\* it succeeds and the operation returns; or it fails before the rename; or it
\* fails (or the injected fault trips) after the new slot is in place.
Save(s, cost) ==
    \/ /\ s.sequence < MaxSequence
       /\ slots' = Written(s)
       /\ mem' = Persisted(s)
       /\ pc' = "idle"
       /\ Spend(cost)
    \/ /\ slots' = slots
       /\ Raise(s)
       /\ IF s.sequence < MaxSequence THEN Spend(cost + 1) ELSE Spend(cost)
    \/ /\ s.sequence < MaxSequence
       /\ slots' = Written(s)
       /\ \/ Raise(s)
          \/ Raise(Persisted(s))
       /\ Spend(cost + 1)

\* The process stops; only the files remain.
Crash ==
    /\ pc # "closed"
    /\ pc' = "closed"
    /\ mem' = Fresh
    /\ accepted_octets' = 0
    /\ Spend(1)
    /\ UNCHANGED diskVars

\* The fault injected after PrefixBytes, CommitBytes or QuarantineBytes, or a
\* failing directory sync there: the operation returns before its save.
FailAtBoundary ==
    /\ pc \in {"PrefixBytes", "CommitBytes", "QuarantineBytes"}
    /\ Raise(mem)
    /\ accepted_octets' = 0
    /\ Spend(1)
    /\ UNCHANGED diskVars

-----------------------------------------------------------------------------
(* Operations.                                                             *)

\* open_with_fault: read both slots, reconcile with the files, save only when
\* reconciling changed something.
Open ==
    /\ pc = "closed"
    /\ Recoverable(Latest)
    /\ IF Reconciled(Latest) = Latest
       THEN /\ mem' = Latest
            /\ pc' = "idle"
            /\ UNCHANGED <<slots, disturbances>>
       ELSE \/ /\ Latest.sequence < MaxSequence
               /\ slots' = Written(Reconciled(Latest))
               /\ mem' = Persisted(Reconciled(Latest))
               /\ pc' = "idle"
               /\ UNCHANGED disturbances
            \/ \* the save succeeded but open did not return a store
               /\ Latest.sequence < MaxSequence
               /\ slots' = Written(Reconciled(Latest))
               /\ Spend(1)
               /\ UNCHANGED <<mem, pc>>
    /\ UNCHANGED <<part, complete, accepted_octets>>

AcceptDescriptor ==
    /\ pc = "idle"
    /\ mem.status = "Absent"
    /\ Save([mem EXCEPT !.status =
                IF L = 0 THEN "CompleteUnverified" ELSE "Offered"], 0)
    /\ UNCHANGED <<part, complete, accepted_octets>>

\* DATA payloads.  The bound is the descriptor's length: anything longer is
\* refused with DataExceedsDescriptor.
Payloads == UNION {[1 .. n -> Octets] : n \in 1 .. L}

Exact(offset, payload) ==
    /\ offset + Len(payload) <= L
    /\ payload = SubSeq(Encoded, offset + 1, offset + Len(payload))

\* Octets of the payload the durable prefix already covers.
Overlap(offset, payload) ==
    LET covered == mem.durable_prefix_octets - offset IN
    IF covered < Len(payload) THEN covered ELSE Len(payload)

\* Faulty variants: the descriptor need not be accepted; a payload starting
\* right at the durable prefix is refused.
MayAppendUnaccepted(offset, payload) ==
    /\ pc = "idle"
    /\ mem.status # "Committed"
    /\ offset + Len(payload) <= L
    /\ offset = mem.durable_prefix_octets

MayAppendInside(offset, payload) ==
    /\ pc = "idle"
    /\ mem.status \notin {"Absent", "Committed"}
    /\ offset + Len(payload) <= L
    /\ offset < mem.durable_prefix_octets
    /\ Overlap(offset, payload) < Len(payload)

\* The guards of accept_data that let it append something.
MayAppend(offset, payload) ==
    /\ pc = "idle"
    /\ mem.status \notin {"Absent", "Committed"}
    /\ offset + Len(payload) <= L
    /\ offset <= mem.durable_prefix_octets
    /\ LET overlap == Overlap(offset, payload) IN
       /\ overlap < Len(payload)
       /\ overlap > 0 =>
            /\ offset + overlap <= Len(Bytes(part))
            /\ SubSeq(Bytes(part), offset + 1, offset + overlap)
                 = SubSeq(payload, 1, overlap)

Suffix(offset, payload) ==
    SubSeq(payload, Overlap(offset, payload) + 1, Len(payload))

\* accept_data up to the PrefixBytes boundary: the suffix is appended, synced.
AcceptData(offset, payload) ==
    /\ MayAppend(offset, payload)
    /\ part' = Bytes(part) \o Suffix(offset, payload)
    /\ accepted_octets' = Len(Suffix(offset, payload))
    /\ pc' = "PrefixBytes"
    /\ Spend(IF Exact(offset, payload) THEN 0 ELSE 1)
    /\ UNCHANGED <<slots, complete, mem>>

\* The append stops part-way: any proper prefix of the suffix is in the file.
AppendInterrupted(offset, payload) ==
    /\ MayAppend(offset, payload)
    /\ \E n \in 0 .. Len(Suffix(offset, payload)) - 1 :
         part' = Bytes(part) \o SubSeq(Suffix(offset, payload), 1, n)
    /\ Raise(mem)
    /\ Spend(IF Exact(offset, payload) THEN 1 ELSE 2)
    /\ UNCHANGED <<slots, complete, accepted_octets>>

\* accept_data from PrefixBytes to its return.
SavePrefix ==
    LET prefix == mem.durable_prefix_octets + accepted_octets IN
    /\ pc = "PrefixBytes"
    /\ Save(Moved(mem, Received(prefix), prefix), 0)
    /\ accepted_octets' = 0
    /\ UNCHANGED <<part, complete>>

\* Faulty variant: the reset starts from a fresh state.
ResetToFresh(s) == [Fresh EXCEPT !.sequence = s.sequence, !.status = "Offered"]

ResetToOffered(s) == Moved(s, "Offered", 0)

\* verify_staged_with: on success save Verified; otherwise move the staging
\* file away and go on to reset the state.  Checking again what is already
\* Verified is a repeat.
VerifyStaged ==
    /\ pc = "idle"
    /\ mem.status # "Committed"
    /\ mem.durable_prefix_octets = L
    /\ part # NoFile \/ L = 0
    /\ LET repeat == IF mem.status = "Verified" THEN 1 ELSE 0 IN
       \/ /\ Accepts(Bytes(part))
          /\ Save([mem EXCEPT !.status = "Verified"], repeat)
          /\ UNCHANGED part
       \/ /\ ~Accepts(Bytes(part))
          /\ part # NoFile
          /\ part' = NoFile
          /\ pc' = "QuarantineBytes"
          /\ UNCHANGED <<slots, mem, disturbances>>
       \/ /\ ~Accepts(Bytes(part))
          /\ part = NoFile
          /\ Save(ResetToOffered(mem), 0)
          /\ UNCHANGED part
    /\ UNCHANGED <<complete, accepted_octets>>

\* quarantine from QuarantineBytes to its return.
SaveQuarantine ==
    /\ pc = "QuarantineBytes"
    /\ Save(ResetToOffered(mem), 0)
    /\ UNCHANGED <<part, complete, accepted_octets>>

\* Faulty variant: a missing staging file is not created.
CommitExisting ==
    /\ pc = "idle"
    /\ mem.status = "Verified"
    /\ part # NoFile
    /\ complete' = part
    /\ part' = NoFile
    /\ pc' = "CommitBytes"
    /\ UNCHANGED <<slots, mem, accepted_octets, disturbances>>

\* commit_verified up to CommitBytes: the staging file, created empty when it
\* is missing, is renamed over the complete file.
CommitVerified ==
    /\ pc = "idle"
    /\ mem.status = "Verified"
    /\ \/ /\ complete' = Bytes(part)
          /\ part' = NoFile
          /\ pc' = "CommitBytes"
          /\ UNCHANGED <<mem, disturbances>>
       \/ \* the rename fails
          /\ part' = Bytes(part)
          /\ Raise(mem)
          /\ Spend(1)
          /\ UNCHANGED complete
    /\ UNCHANGED <<slots, accepted_octets>>

\* commit_verified from CommitBytes to its return.
SaveCommitted ==
    /\ pc = "CommitBytes"
    /\ Save(Moved(mem, "Committed", L), 0)
    /\ UNCHANGED <<part, complete, accepted_octets>>

\* commit_receipt.  The store itself does not ask for a committed
\* representation.
CommitReceipt(id) ==
    /\ pc = "idle"
    /\ id \notin mem.receipt_ids
    /\ Save([mem EXCEPT !.receipt_ids = @ \union {id}], 0)
    /\ UNCHANGED <<part, complete, accepted_octets>>

-----------------------------------------------------------------------------
Init ==
    /\ slots = [i \in 0 .. 1 |-> Fresh]
    /\ part = NoFile
    /\ complete = NoFile
    /\ mem = Fresh
    /\ pc = "closed"
    /\ accepted_octets = 0
    /\ disturbances = 0

Next ==
    \/ Open
    \/ AcceptDescriptor
    \/ \E offset \in 0 .. L, payload \in Payloads : AcceptData(offset, payload)
    \/ \E offset \in 0 .. L, payload \in Payloads :
          AppendInterrupted(offset, payload)
    \/ SavePrefix
    \/ VerifyStaged
    \/ SaveQuarantine
    \/ CommitVerified
    \/ SaveCommitted
    \/ \E id \in Receipts : CommitReceipt(id)
    \/ FailAtBoundary
    \/ Crash

Spec == Init /\ [][Next]_vars

\* The exact continuation a request at the durable prefix is answered with.
AcceptNext ==
    \E payload \in Payloads :
        /\ Exact(mem.durable_prefix_octets, payload)
        /\ AcceptData(mem.durable_prefix_octets, payload)

\* The contact driver reopens the store and calls every operation again until
\* the representation is committed; an operation once started runs on.
Fairness ==
    /\ WF_vars(Open)
    /\ WF_vars(AcceptDescriptor)
    /\ WF_vars(AcceptNext)
    /\ WF_vars(SavePrefix)
    /\ WF_vars(VerifyStaged)
    /\ WF_vars(SaveQuarantine)
    /\ WF_vars(CommitVerified)
    /\ WF_vars(SaveCommitted)

FairSpec == Spec /\ Fairness

-----------------------------------------------------------------------------
(* Properties.                                                             *)

TypeOK ==
    /\ slots \in [0 .. 1 -> State]
    /\ part \in Seq(Octets) \union {NoFile}
    /\ complete \in Seq(Octets) \union {NoFile}
    /\ mem \in State
    /\ pc \in {"closed", "idle", "PrefixBytes", "QuarantineBytes",
               "CommitBytes"}
    /\ accepted_octets \in 0 .. L
    /\ disturbances \in 0 .. MaxDisturbances

\* Only the exact prepared bytes, accepted by the decoder, are ever committed,
\* and no state that a reader or a reopening can see says Committed without
\* them (commit_verified, reconcile, snapshot).
CommitIntegrity ==
    /\ complete # NoFile => complete = Encoded /\ Decodes
    /\ "Committed" \in {mem.status, Latest.status} => complete # NoFile

\* Whenever the store is between two operations, losing the process now loses
\* nothing: the newest slot holds the state in the handle, and reopening would
\* show the same snapshot and the same receipts.  So an operation that returned
\* Ok is durable (save, reconcile).
ReturnIsDurable ==
    pc = "idle" =>
        /\ mem = Latest
        /\ Recoverable(mem)
        /\ Snapshot(Reconciled(mem)) = Snapshot(mem)

\* No crash, torn append or failed save leaves files that open_with_fault
\* would refuse for ever.
AlwaysReopens == Recoverable(Latest)

IsExtension(longer, shorter) ==
    /\ Len(longer) >= Len(shorter)
    /\ SubSeq(longer, 1, Len(shorter)) = shorter

\* Staged bytes are never lost or rewritten: a step extends them, promotes them
\* unchanged to the complete file, or discards a full candidate that failed
\* verification (accept_data, commit_verified, quarantine).
RecoverablePrefixKept ==
    [][\/ IsExtension(Bytes(part'), Bytes(part))
       \/ complete = NoFile /\ complete' = part
       \/ Len(part) = L /\ ~(part = Encoded /\ Decodes)]_<<part, complete>>

\* Once promoted, the complete file never changes again: committed state is
\* immutable, whatever fails between the rename and the save that records it.
CommittedImmutable ==
    [][complete # NoFile => complete' = complete]_complete

\* A representation the decoder accepts is eventually committed, whatever
\* finite series of crashes, failures and corrupted payloads comes first.
EventuallyCommitted == <>(Decodes => complete = Encoded)

\* RepresentationState::transition of the protocol crate.
Transition(from, to) ==
    \/ from = "Absent" /\ to = "Offered"
    \/ from \in {"Offered", "Partial"} /\ to \in {"Partial", "CompleteUnverified"}
    \/ from = "CompleteUnverified" /\ to = "Verified"
    \/ from = "Verified" /\ to = "Committed"

\* The moves the store adds to it: a zero-length representation is complete
\* before it is offered, and a complete candidate is offered again once nothing
\* of it is left in the staging file.
StatusMove ==
    \/ Latest'.status = Latest.status
    \/ Transition(Latest.status, Latest'.status)
    \/ /\ L = 0
       /\ Latest.status \in {"Absent", "Offered"}
       /\ Latest'.status \in {"CompleteUnverified", "Verified"}
    \/ /\ Latest.status = "CompleteUnverified"
       /\ Latest'.status = "Offered"
       /\ part = NoFile

\* The durable status moves as the receiver's state machine allows, with these
\* two exceptions and no other, also over crashes and reopenings
\* (accept_descriptor, verify_staged_with, quarantine, reconcile).
StatusMoves == [][StatusMove]_slots

Transfer ==
    INSTANCE DurableTransfer WITH
        accepted <- Latest.status # "Absent",
        staged <- IF complete # NoFile THEN complete ELSE Bytes(part),
        committed <- complete # NoFile,
        receipts <- Latest.receipt_ids

\* The store implements the abstract promise: crashes, torn appends and
\* reopenings are invisible in it.
ImplementsTransfer == Transfer!Spec
=============================================================================
