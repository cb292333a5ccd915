# A verification of the BEMPIC reference implementation

BEMPIC moves prepared mail objects between two synchronizing peers over slow,
intermittent, budgeted carriers. `src/crates` holds the Rust reference
implementation. This directory holds TLA+ modules translated from that code,
TLC configurations that check them on small instances, and theorems about them
that TLAPS proves for every instance. `PROJECT.json` names, for each definition,
the source lines it models; for each run, what it checks; and every hazard,
finding and theorem.

## 1. Inventory of the system

| Component | Source | State it keeps | Operations |
|---|---|---|---|
| Representation store (v0.1) | `bempic-store/src/v01_representation.rs`, `durable.rs` | two state slots, staging file, complete file, the state in the open handle | open (reconcile), accept_descriptor, accept_data, verify_staged_with, commit_verified, commit_receipt |
| Protocol store (v0.1) | `bempic-store/src/v01.rs` | two state slots with the negotiated profile, receipts, object bindings, failures, collections | open, persist_negotiation, commit_receipt, observe_immutable_object, record_failure, mark_failure_condition_changed, take_failure_retry |
| Collection reconciliation (v0.1) | `bempic-sync/src/v01.rs` (reconcile, collection_checkpoint), `bempic-store/src/v01.rs` (collections) | checkpoint, retained entries, the reconciliation in progress | begin_reconciliation, commit_offer_page, finish_reconciliation; reconcile on the other side |
| Integrated contact (v0.1) | `bempic-sim/src/v01.rs` | the sender's state; the two stores of the receiver | run_contact, run_until_complete |
| Deterministic carrier | `bempic-sim/src/lib.rs`, `bempic-carrier` | octets spent, elapsed time, disconnected | opportunity, transmit |
| Transfer budget, endpoint state machines | `bempic-sync/src/v01.rs` | octets used in total and per direction; Compatibility, Collection, Representation and SenderState | admit; transition, interrupted |
| Capability negotiation (v0.1) | `bempic-sync/src/v01.rs`, `bempic-store/src/v01.rs` | the one cached profile of the protocol store | validate, negotiate; persist_negotiation, cached_negotiation |
| Record codec (v0.1) | `bempic-sync/src/v01.rs` | none | validate, encode, decode, exact_encoded_size |
| Compact alias candidate | `bempic-sync/src/v01_compact.rs` | none; the caller's checkpoint is an argument | encode, decode_for, exact_encoded_size |
| Application model | `bempic-model/src/lib.rs` | semantic accounting, immutable-object registry | prepare, verify, account, observe |
| Experimental codecs (v0) | `bempic-sync/src/lib.rs`, `bempic-codec` | none | the "B0" records; the message representation and its model validation |
| Experimental profile v0 | `bempic-store/src/lib.rs`, `bempic-sync/src/lib.rs`, `bempic-sim/src/lib.rs` | staging, complete and state file; ceiling and phases in the state | open, mark, accept, verify_and_commit; the earlier run_contact |
| Drivers and evidence | `bempic-cli`, `bempic-bench`, `bempic-conformance`, `scripts` | none | fixed scenarios, generated evidence |
| Python prototype | `prototype` | the earlier oracle's own store | cross-language vectors |

How they interact. `run_until_complete` owns a `Sender` (volatile) and a
`Receiver` (both stores, durable) and calls `run_contact` once per contact. A
contact gets a fresh carrier; every record passes through `submit`, which asks
the carrier's opportunity and the negotiated ceiling before it transmits. The
receiver's handlers call the stores directly; an error from a store, from the
carrier or from a state transition ends the contact with `Err`, everything else
ends it with a report. Nothing is concurrent inside one process; the difficulty
is in *stops*: a process may end between any two durable steps, a record may be
lost with its contact, and the next contact starts from what is left, on both
sides, independently.

What is hard, and the property that answers it (`PROJECT.json` "hazards" has the
complete list with lines):

- durable steps of one operation with a stop in between (append then save,
  rename then save, quarantine then reset; a slot rewritten in place):
  `ReturnIsDurable`, `AlwaysReopens`, `RecoverablePrefixKept`, `StaysRecoverable`;
- an operation that fails after it changed the handle or a file, and a caller
  that repeats it: `CommittedImmutable`, `AcknowledgedKept`,
  `HasReceiptSurvives`, `RetryAtMostOnce`;
- pages of different generations and modes, lost, late or repeated:
  `CheckpointIsAuthoritative`, `PagesNeverConflict`;
- budgets counted in two places and a payload sized before its request is sent:
  `RequestLeavesRoom`, `ScopeTracksCarrier`;
- one operation sized, written and read by three functions, and what damage on
  the way makes of it: `SizeIsExact`, `DeclaredMaximumHolds`, `OneImagePerRecord`,
  `NeverAnotherRecord`, `SameContextAccepts`;
- two peers that each compute the profile alone, and one cached profile for all
  peers: `BothSidesAgree`, `NoTupleBothPrefer`, `ProfileServesBoth`,
  `NeverAnotherPeersProfile`;
- accounts kept at three places of the driver: `ReportBalances`,
  `UsefulCountedOnce`, `UsefulOnce`;
- two endpoints that disagree on how far the transfer is: `SenderNeverAhead`,
  `ReceiptAfterCommit`, `SenderTransitionsLegal`;
- progress after all that: `EventuallyCommitted`, `ReceiptsEventuallyRetained`,
  `EventuallyCaughtUp`, `EventuallyReceipted`.

## 2. Modules

| Module | Models |
|---|---|
| `RepresentationStore` | the representation store, one action per durable boundary |
| `DurableTransfer` | the abstract promise of a representation store; `RepresentationStore` implements it |
| `RepresentationStore_proofs` | its theorems |
| `ProtocolFacts` | the facts a protocol store retains and what each operation makes of them |
| `ProtocolStore` | the protocol store: two slots rewritten in place, handle ahead of the files |
| `RetainedFacts` | the abstract promise of a protocol store; `ProtocolStore` implements it |
| `ProtocolStore_proofs` | its theorems |
| `CollectionSync` | reconciliation of one append-only collection, both sides |
| `CollectionReplica` | the abstract promise of reconciliation; `CollectionSync` implements it |
| `CollectionSync_proofs` | its theorems |
| `Contact` | a series of contacts: driver, carrier, sender, and the receiver's stores as durable facts |
| `Contact_proofs` | its theorems |
| `Negotiation` | capabilities, their validation, and `negotiate`, as operators |
| `PeerProfiles` | a receiver that negotiates with several peers and caches one profile |
| `PeerProfiles_proofs` | theorems about both |
| `WirePrimitives` | the fixed-width integers, lists and texts every codec writes, and the methods of `Reader` |
| `RecordCodec` | over them, the seven operations of v0.1: validation, arithmetic size, octets, strict decoder |
| `RecordCodec_proofs` | lemmas about both: what each writer writes and each reader reads |
| `CompactCodec` | the compact codec over `RecordCodec` |
| `ExperimentalCodecs` | the two codecs of generation 0 |
| `RecordExchange` | one record through one of the four codecs and a damaging carrier |
| `RecordExchange_proofs` | lemmas about the other three codecs, and the theorems about all four |
| `ExperimentalTransfer` | the generation-0 contact driver and file store; it too implements `DurableTransfer` |
| `MC_*` | constants for TLC |

The composition is by assume-guarantee. `Contact` keeps of the two stores only
what is durable and lets each store operation succeed, or fail having taken
effect whole or not at all, after which the contact is over; `CollectionSync`
lets a save do the same; `PeerProfiles` keeps of the store the one cache slot.
`Negotiation` is shared by `PeerProfiles` and the codecs, `DurableTransfer` by
the two generations of the store. That is what `ImplementsTransfer`/`ReturnIsDurable` and
`ImplementsRetainedFacts` establish for the detailed stores.

### RepresentationStore

`slots`, `part`, `complete` are the files, `mem` is `RepresentationStore::state`,
`pc` is where the call in progress is: `closed`, `idle`, or the
`DurableBoundary` just reached. `accept_data`, `quarantine` and
`commit_verified` change a file first and save afterwards, so each has two
actions and any failure or stop may come between; an append may also stop after
any part of the suffix. `Save` is `save()` with its three outcomes: done, failed
before the rename of the new slot, failed after it. `replace_file` writes a
temporary file and renames it, so a slot is never torn here. Payloads and the
representation are sequences over a set `Octets`; a digest comparison is a
comparison of the bytes. A call that changes nothing (a duplicate, a refusal) is
a stuttering step.

`RetryInPlace` says what the caller does after an `Err`: FALSE, it drops the
handle and reopens, as `run_until_complete`'s callers and the fault-injection
tests do; TRUE, it goes on with the same handle, which the type allows.

### ProtocolStore

`slots` holds the two slot files, each `Missing`, `Torn` or a state. This store
rewrites a slot in place (`File::create`), so any interrupted `Save` leaves the
old content, a torn file or the new one. Operations change `mem` and then save;
after a failure the handle, if the caller keeps it, holds the new facts under
the old sequence. The ghost variables `acknowledged` (facts of the last
operation that returned Ok) and `granted` (automatic retries granted per scope
since the failure was observed) are what the properties relate to the files.

### CollectionSync

The authority side is pure code: `Offers(g, base, cursor)` is every page
`reconcile` can return for a generation, a known base and a cursor (a page may
end after any entry up to the limit, because the record size decides). A digest
is the ranked list of keys it hashes. `PossibleOffers` is every page the
authority could have computed up to now: a carrier that loses, delays, repeats
or reorders records delivers any of them at any time, so no channel variable is
needed. `Restart` is the driver's answer to a reconciliation that cannot finish.
`Publish` and `Forget` are the application behind `reconcile`'s arguments.

### Contact

`stage` is the record or local step that comes next in `run_contact`; `outcome`
is how the last contact ended. `Submit` is `submit`: not admitted, charged and
delivered, charged and lost with the contact, or an error because the carrier
was already gone (`Broken`). `StartContact` is one turn of
`run_until_complete`'s loop, in the call at hand or in a new one, which the
caller makes after an error or once the receipt is reported. `root` is the
directory the receiver has open: the persistent one, or one of `FullRestarts`,
the directories `full-restart/<number>` of plans with `discard_receiver_state`.
`kept` is what the other directories hold, because the code comes back to
them: a later plan without a discard reopens the persistent one, a new call
finds full restarts of earlier calls; `opened` keeps one call from using a
number twice. Which number a directory has is left open. `SendRequest` has the
three ways a request is not sent: nothing is wanted, the carrier has not one
octet left (the placeholder that is sized first is invalid, an error), or no
payload fits. Sizes are
exact record sizes; the model's CONSTANTS give each operation one size.
Corruption flips one payload octet, so a staged prefix is either intact or not.
`scope` is the `BudgetScope` of the accepted request with its three limits and
three uses: `Admits` and `Charged` are `admit`, `RequestValid` is the validation
of the request and its selection. `ledger` holds the accounts of the present
contact that a report is judged by: the prefix before, the payload octets that
passed the decoder (`Arrived`, in `submit`), those of them the store called
duplicate (`Replayed`, in `accept_decoded_data`), and refused candidates.

### Negotiation and PeerProfiles

`Negotiate(l, r)` is `negotiate` with its checks in the code's order; a result
is a profile or the failure code. `PeerProfiles` puts it where it is used:
`capabilityCache` is the store's single slot, `now` the caller's clock, `contact`
what the last contact went on with, and `history` remembers for the properties
what was last negotiated with whom. Advertisements change between contacts, on
either side, and a profile expires.

### WirePrimitives, RecordCodec, CompactCodec, ExperimentalCodecs, RecordExchange

The code writes the size of a record, its octets and its decoder as three
separate functions, and so do the modules: `ExactEncodedSize`, `Encode`,
`Decode`. A wire image is a sequence of octets, complete with magic, kinds,
flags and lengths; the width of each fixed field type is a parameter, `Width`,
so that TLC can alter every octet of a whole record.

`WirePrimitives` is the vocabulary. A method of `Reader` is a function from the
position reading starts at to `<< >>`, an error, or the value read and the
position after it; `TakeFields`, `TakeList`, `TakeOption` and `TakeChoice` put
readers together as the code puts calls and `?` together. `decode_descriptor`
validates what it read at once and the code's `validate` does so again; the
model validates once, in `Decode`. Each decoder is thus an
expression that lists the fields in the order they are read. Recursion (powers,
sums, big-endian values, reading one after the other) is by recursive functions.
The types of the code are the sets `Bodies`, `ExperimentalBodies` and `Message`.

`CompactCodec` is the same three functions over the B1 image, with the aliases of
the profile's CAPABILITIES and of the checkpoint the caller passes.
`RecordExchange` sends one record of each kind with one codec, damages it or not,
and delivers it to a receiver with its own checkpoint and its own known
extensions. `LiteralsAreTheMaxima` in `MC_RecordExchange` evaluates the declared
maxima once at the real widths and compares them with the literals in the code.

### ExperimentalTransfer

The generation-0 `run_contact` over a `FileStore` that is reopened before every
contact. `saved`, `part` and `complete` are the three files, `state` the open
store's state, `step` where the contact stands; each action is one durable write
or one record, so that a stop may come between any two. `Contacts` are the
carriers a run may be given: budget, record limit, right or wrong source octets,
and when they disconnect. The record sizes are the real B0 ones.

## 3. Runs

| Run | Bounds | What it shows |
|---|---|---|
| `rep_store_crash` | 3 octets over 2 values, 2 receipts, 4 disturbances, fair; 25 thousand states | commit integrity, durability of returns, reopening, the order of the durable status, refinement of `DurableTransfer`; the representation is eventually committed |
| `rep_store_retry_commit` | caller reuses a failed handle | finding 1 |
| `protocol_store_crash` | one of each fact, 2 digests, 4 disturbances, sequence up to 8, fair; 27 thousand states | durability of returns, one valid slot always, acknowledged facts kept, one retry at most, refinement of `RetainedFacts`; receipts are eventually retained |
| `protocol_store_receipts` | caller reuses a failed handle | finding 2 |
| `collection_sync_faults` | 4 entries whose key order differs from the append order, pages of 1 or 2, 3 disturbances, fair; 36 thousand states | checkpoint authority, no page conflict, refinement of `CollectionReplica`; the receiver catches up |
| `contact_faults` | 0 or 3 octets, budgets 3 and 8, record limits 2, 4, 2 replays, 2 directories, 3 disturbances, fair, deadlock checked; 553 thousand states | budget, receipts, sender's belief, useful octets, balanced reports; the receipt is eventually retained |
| `contact_loss`, `contact_restart` | | findings 3 and 4 |
| `peer_profiles` | every order of up to 3 tuples on both sides, advertisements that fail each check, 2 peers, 2 time steps; 130 thousand states | both sides agree, on a tuple no common one beats, within both offers; the cache never serves another peer |
| `record_exchange` | each operation of both generations and the message, small; every octet altered to its neighbours and to marked values, every cut, one octet more; 236 thousand states | exact sizes, declared maxima, unique images, no substitution, acceptance in the same context |
| `compact_optional` | the compact codec alone decides | finding 5 |
| `experimental_transfer` | 3 octets, 7 kinds of contact, 3 faults, fair, deadlock checked; 59 thousand states | receipt after commit, useful once, room for the answer, a ceiling before data, refinement of `DurableTransfer`; the transfer ends with its receipt |

The bounds. A *disturbance* is anything the environment does to hurt: a crash, a
failing call, a corrupted, repeated or stale input, a lost record. Bounding
their number keeps the state finite without bounding the length of the normal
run, and makes the liveness properties say "after finitely many disturbances".
Three or four reach a fault in recovery from a fault. Three octets over two values let a
torn append, a resumed append and a shifted replay differ; four entries with
pages of at most two leave room for a lost page, a gap, a page of a second
generation and a full inventory that lists the entries in another order.
`MaxSequence` stands for `u64::MAX`. A representation of no octets takes the
branches without a staging file: `contact_faults` has one, and the theorems
about the store hold for every length. Budget 3
carries the capabilities and a summary, or a summary and an offer, after which
exactly nothing is left for the request, or one payload octet; 8 carries a whole
transfer but not all its replays, and not together with the offer; limit 2
leaves one payload octet per record. Two replays let one follow a lost one. The
second directory lets the receiver lose its state under a sender that goes on,
and come back to it. In
`peer_profiles` three tuples are the fewest for which a preference sum can tie
without being the same order; in `record_exchange` a field of one octet has
neighbours, zero and an overflow, which is what the checks on it tell apart. In
`experimental_transfer` the seven contacts are a wide one, one that leaves two
octets of payload, one that breaks off, one too narrow for an OFFER, two with
wrong octets and one dead from the start.
`CHECK_DEADLOCK FALSE` only where the system may rest when the work is done; the
series of contacts never does, so its runs check deadlock.

Fairness. Nothing in the code schedules itself, so fairness is an assumption on
the caller, stated per run. Stores: the caller reopens after an error and calls
again the operations that are still needed (`run_until_complete` and every
resumption test do), and a call once started runs on. Collections: the receiver
reopens, starts over when it must, asks for the next page and finishes; the
authority answers. Contacts: a contact in progress runs to its end
(`WF(Step)`), and again and again a contact has the largest budget
(`SF(StartContact)` with that budget, in the directory the receiver has open;
strong, because smaller contacts may come in between for ever). Generation 0:
the same, with `Workable` contacts. The largest budget must carry capabilities,
summary and offer together and the record limits must admit an OFFER: a contact
that cannot leaves nothing behind but the negotiated profile, and the code has
no smaller step. In generation 0 the ceiling only narrows, so one such contact
stops the transfer for good; `EventuallyReceipted` of `ExperimentalTransfer`
says so. `peer_profiles` and `record_exchange` check safety only.

Every property of a passing run has a mutant in `PROJECT.json`: a plausible bug
in the code (a dropped guard, an unsaved change, a swapped order) with which TLC
finds that property violated. They are the definitions commented "Faulty variant".

A run checks what nothing else it checks implies. Type invariants of the stores,
of the reconciliation, of negotiation and of generation 0 are theorems and are
not run again; so are
`RecoverablePrefixKept`, which the refinement of `DurableTransfer` implies, and,
for legal callers, `CommittedImmutable` and `SenderTransitionsLegal`, which the
violation runs `rep_store_retry_commit` and `contact_restart` check where they fail.

## 4. Proofs

Eight modules hold theorems or the lemmas of one, for every value of the
constants: every representation, payload alphabet, history, advertisement,
record, field width, budget and limit, and every number of crashes, losses and
failed saves. `tlapm` checks them to the last leaf. The only assumptions are the named
`ASSUME`s of the modules, which TLC evaluates on every run: they give the domains
of the constants and keep special values apart from real ones.

**Representation store.** All theorems assume `RetryInPlace = FALSE`: the caller
drops a store whose call returned `Err` and reopens it. Without that the
properties are false (finding 1). `StoreInv` is the inductive invariant:

- `TypeOK`;
- `FilesInv`: a complete file is verified and decodable, and then there is no
  partial file; the partial file is no longer than the representation;
- `NewestSlotInv`: what each status of the newest slot says about the files.
  Without it a reopening could find a state and files that `open`
  refuses, so `AlwaysReopens` is not inductive by itself;
- `HandleInv`: the handle equals the newest slot at each boundary (`pc`) inside
  an operation, and how far the files may be ahead of it there. It is what makes a
  step from the middle of an operation, and a crash there, preserve the rest.

From it: `TypeCorrect`, `CommitsAreExact` (`CommitIntegrity`), `ReturnsAreDurable`,
`StoreAlwaysReopens`, the action properties `CommittedNeverChanges` and
`StagedBytesKept`, `StatusFollowsMachine` (the durable status only moves as
`RepresentationState` allows, or along the one reset a reopening makes; by
`StatusInv`, which says how far the files are at each status), and
`StoreImplementsTransfer`: under the mapping of the
staged, complete and released bytes every step is a step of `DurableTransfer` or
a stuttering step.

**Protocol store.** Two inductive invariants hold for every caller, also for one
that goes on using a handle after `Err`:

- `StoreInv` = `TypeOK`, `SlotsInv` (slot *i* holds only sequences of parity *i*)
  and `HandleInv` (the slot the handle was read from or last saved to is intact,
  the other slot is at most one save ahead). This is why a torn write never
  destroys the newest state: a save rewrites the slot of the other parity. The
  slot may be one ahead of the handle because a save can fail after it wrote.
- `KeptInv`: the newest slot, the handle, and every slot not older than the
  handle have every acknowledged receipt and binding and count every granted
  retry. `RetryAtMostOnce` and `AcknowledgedKept` speak of the newest slot only
  and are not inductive: after a failed save the handle holds facts the newest
  slot may or may not have, and a slot the failed save did write becomes the
  newest if a later save tears.

From them: `TypeCorrect`, `RetriedOnce`, `NothingAcknowledgedIsLost`. For callers
that reopen after an error `ReturnIsDurable` is inductive over `StoreInv`, which
gives `DurableOnReturn`, `AlwaysRecoverable` and `Implements` (every step is a
step of `RetainedFacts` or a stutter, seen through the newest slot). With
`RetryInPlace = TRUE` those three fail: a handle reused after an error runs
ahead of the files.

The step of the argument that all operations share is `SavePreserves`: a save
either `Returned` (the new facts are in the handle and newest on disk) or was
`Lost` (they may be in a slot, and nothing the handle came from is touched). Each
operation is then one application of it (`StepOutcome`).

**Collection reconciliation.** `SyncInv` says of the handle and of the files:
the checkpoint is `Checkpoint(g, Entries(g))` for a `g` not after the authority's
generation, the entries are `Entries(g)`, a reconciliation in progress has a
target of the same form, and what it accepted is part of that target's entries
and lies at or before its cursor. The last part is what `PagesFit` needs: a page
that advances starts after the cursor, and either coordinate identifies an entry
(`PositionsIdentify`, from the assumption that a history repeats no key).
`CheckpointsAreAuthoritative` rests on `DigestDetermines`: among the authority's
entries, equal digests mean equal sets. That a page has a first and a last entry
at all (`PageEnds`) takes well-founded induction, once, in `LeastExists`.
`SyncImplementsReplica` follows: a save moves the checkpoint forward or not at all.

**Contact.** `ContactInv` joins the properties to `StageInv` (what is accepted,
committed and authorized at each stage) and `LedgerInv` (where the accounts stand
at each stage). `RequestLeavesRoom` holds at the one step that requests because
of `PayloadFits`, the arithmetic of the saturating bounds; `ScopeTracksCarrier`
because scope and carrier are charged together or not at all. From it:
`ContactTyped`, `ReceiptImpliesCommit`, `UsefulAtMostOnce`, `RequestedDataFits`,
`ScopeIsTheCarriers`, `ReportsBalance`. `SenderStaysBehind` and
`SenderStaysLegal` follow in a second step: a sender only moves on to a belief
when the fact is in the store (`StepFacts`), and no directory loses a fact
between contacts (`ContactsKeepFacts`). Only the last of them assumes
`FullRestarts = {}`; without it it fails (finding 4). `KeptInv` says of the
directories the receiver has left what `ReceiptAfterCommit` and
`UsefulCountedOnce` say of the one it has open, so that it can come back to them.

**Negotiation.** `NegotiateSymmetric`: `negotiate` gives both sides the same
result, for any two advertisements. From it `PeersAgree`; `ProfilesStayBound`
adds that the cache holds what was last negotiated with the peer it names. What
is selected exists: the highest common generation because the common ones are
finite (`HighestExists`), the foremost tuple because ranks are natural numbers
and ties are broken over a finite set (`ForemostExists`). So it is a member of
both lists (`ProfileIsCommon`), which gives `AgreedProfileServes` and
`ProfilesTyped`; and a tuple both peers place before the selected one would have
the smaller rank, which is `SelectedIsUnbeaten`.

**Generation 0.** `TransferInv` joins the properties to the facts they need:

- `FilesInv`: a complete file is exact, and then nothing is staged;
- `HandleInv`: the state of an open store is saved and true of its files, except
  between two durable writes; `MidwayInv` says how far the files are ahead there;
- `OfferInv` and `CeilingInv`: octets travel only after an offer no reopening
  forgets, and no capability phase is open without its ceiling;
- `UsefulInv`: octets not committed, or committed by a rename the state does not
  tell of yet, were not counted. `UsefulOnce` is not inductive without it.

From it: `TransferTyped`, `ReceiptImpliesCommit`, `UsefulAtMostOnce`,
`RequestedDataFits`, `CeilingComesFirst`, and `TransferImplementsDurable`: a torn
append maps to the append of the octets that arrived, a rename to the commit, and
everything else to a stutter.

**The codecs.** `ExchangeInv` is short: what was sent is a record of the types of
the code that its codec encodes, what is on the wire is a sequence of octets and,
if nothing happened to it, the image of that record, and a result is what the
decoder makes of the wire. The weight is in what that implies of four encoders
and four decoders, for records of any length and fields of any width.

The argument rests on one relation. `Reads(w, Reader, put)`, where `put` is a
function from values to images, says that the reader, at any position of the
octets `w`, returns a value exactly when the image of that value is at that
position, and then leaves the position after it. It is both halves of a codec at
once: complete (what was written is accepted) and sound (what is accepted is what
would be written). `RecordCodec_proofs` proves it of every reader of
`WirePrimitives`, shows that lists, options, choices, fields and validation
preserve it (`ReadsList`, `ReadsChoice`, `ReadsFields`, `ReadsChecked`), and
applies that to every operation: `ReadsCapabilities`, `ReadsOffer`, and so on up to
`ReadsPayload`. On the other side `Writes` relates the image of each body to its
arithmetic size. For B1 the two meet in `B1Encodes`, `B1Receives`, `B1Decoded` and
`B1Maximum`; the compact codec, B0 and the message representation get the same
four in `RecordExchange_proofs`, on top of two facts of their own: a varint with
the shortest-image rule has one image, and a text whose length is never the
null marker can be told from an absent one.

From `ExchangeInv` and those: `DecodedIsEncodable` (`TypeOK`),
`EncodedSizeIsExact`, `RecordsWithinMaximum`, `NeverSubstituted`,
`OwnImageAccepted` and `ImageIsUnique`.

The assumptions are the code's literals. `WidthAssumption`: no field is empty.
`BoundsAssumption` and `MessageAssumption`: every bound fits the field that counts
up to it, and a short text is shorter than the null marker. `MaximumAssumption`:
a full cursor is the longest, and a data request of the most selections is longer
than a page request, which `maximum_size_analysis` takes for granted.
`VarintAssumption`: two varints are not longer than two `u64`s and the extensions
a SUMMARY may have, the reason why the compact maximum can be taken from the
generic form. `ProfileAssumption`: the aliased CAPABILITIES are valid.
`CallersAssumption`: callers pass records of the types of the code, and a
checkpoint is a valid SUMMARY. All hold of the real values.

A function defined by recursion is a CHOOSE to the prover. `RecursionExists` and
`RecursionUpTo` show once that it exists and satisfies its equations, from
`Induction`, which is stated for a *set* of naturals, so that it is an ordinary
quantified fact; every recursive function of `WirePrimitives` and `CompactCodec`
is treated that way, and no lemma needs an operator as a parameter.

Only model-checked: the five liveness properties (`EventuallyCommitted`,
`ReceiptsEventuallyRetained`, `EventuallyCaughtUp`, and the two called
`EventuallyReceipted`), which rest on fairness and `ENABLED`, outside what the
prover handles. Every other property of a passing run is a theorem. The literals
of the maxima at the real widths (`LiteralsAreTheMaxima`) are evaluated by TLC.

## 5. Findings

1. `rep_store_retry_commit`: `commit_verified` repeated on the handle whose commit failed after the rename replaces the complete file by an empty one.
2. `protocol_store_receipts`: after a failed save `has_receipt` answers for the handle, not for what survives a reopening.
3. `contact_loss`: a record submitted after a loss turns the contact into an error instead of a pause.
4. `contact_restart`: discarding the receiver under a kept sender ends in `InvalidTransition`: an interrupted contact leaves the sender in an active state (`SenderState::interrupted` is never called).
5. `compact_optional`: a SUMMARY or the profile's CAPABILITIES whose only extension is optional and unknown to the receiver is refused as noncanonical.

Beside 3: a carrier with exactly no octet left at the request is an error too,
not a pause, although the same line of docs/CONFORMANCE-EVIDENCE-v0.1.md says
"budget exhaustion". The placeholder request is sized with a total of 0, which
`Operation::validate` refuses (v01.rs:640 of the simulator, v01.rs:992 of
`bempic-sync`). In the model it is the outcome `"request"`; `contact_faults`
reaches it with budget 3 after a summary and an offer. Nothing durable is lost,
and the liveness property holds with it.

`accept_data` repeated on a handle that failed after its append has the same
cause as 1: the payload is staged twice and the next `open` refuses the store.
With `RetryInPlace = TRUE` the model reaches that state too.

1 and 2 need a caller that reuses a handle after `Err`; the drivers in the
repository drop it, and with `RetryInPlace = FALSE` 1 cannot happen (proved, `CommittedNeverChanges`) and
neither can 2 (`DurableOnReturn` implies it).

## 6. Not modelled

- Hashing and the bytes of prepared objects: a digest stands for what it hashes,
  and collisions are not considered. The immutable-object registry and the
  semantic accounting of `bempic-model` compute over data and keep no state that
  steps; of that crate only the validation the codecs rest on is modelled.
- The accounts of a contact other than the payload and useful octets, and
  `CarrierMetrics`: they only report.
- Time, bandwidth and per-record overhead of the carrier decide *when* it
  disconnects; here it may do so at any record. The mock M4P binding.
- `missing_representations` and `offer_page` of generation 0: selections
  from a list that no driver loops over.
- Characters of more than one octet: a text is printable ASCII (v0.1) or octets
  below 128 (v0), so UTF-8 errors are octets outside those sets. Runs use fields
  of one or two octets, because altering every octet of a 32-octet identifier is
  out of TLC's reach; the theorems hold for every width.
- The command line, benchmarks, the conformance generator, scripts and the
  Python prototype hold no protocol state.
- Files removed or edited by someone else.
