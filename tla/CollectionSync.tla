--------------------------- MODULE CollectionSync ---------------------------
(***************************************************************************)
(* Reconciliation of one append-only collection: the authority side        *)
(* computes bounded offer pages (reconcile, collection_checkpoint in       *)
(* bempic-sync/src/v01.rs), the receiver side commits them in its protocol *)
(* store and promotes the checkpoint (begin_reconciliation,                *)
(* commit_offer_page, finish_reconciliation in bempic-store/src/v01.rs).   *)
(*                                                                         *)
(* The carrier may lose, delay, duplicate and reorder records, so any page *)
(* the authority was ever able to compute can arrive at any time.  A save  *)
(* is atomic, as ProtocolStore shows: it leaves the old or the new state.  *)
(* A digest stands for the ordered list of keys it hashes.                 *)
(***************************************************************************)
EXTENDS Integers, Sequences, FiniteSets

CONSTANTS
    History,          \* keys in the order the authority appends them
    PageLimit,        \* most descriptors in one page
    None,             \* no cursor, no reconciliation, no known base
    MaxDisturbances   \* bound: crashes, failed saves, stale or repeated input

ASSUME ConstantsAssumption ==
    /\ History \in Seq(Nat)
    /\ \A i, j \in 1 .. Len(History) : History[i] = History[j] => i = j
    /\ PageLimit \in Nat \ {0}
    /\ None \notin [mode : {"Delta", "Full"}, at : Nat]
    /\ MaxDisturbances \in Nat

VARIABLES
    generation,    \* the authority's generation
    retained,      \* generations whose checkpoint the authority still knows
    durable,       \* the receiver's CollectionState on disk
    mem,           \* the receiver's CollectionState in the open store
    open,          \* is the receiver's store open?
    disturbances   \* disturbances so far (bound only)

authorityVars == <<generation, retained>>
vars == <<generation, retained, durable, mem, open, disturbances>>

-----------------------------------------------------------------------------
(* Entries, checkpoints and pages.                                         *)

Generations == 0 .. Len(History)

Entries(g) == {[sequence |-> i, key |-> History[i]] : i \in 1 .. g}

\* A page never mixes modes: a delta is ordered by sequence, a full inventory
\* by key.
Position(entry, mode) == IF mode = "Delta" THEN entry.sequence ELSE entry.key

\* collection_checkpoint: how many entries there are and which key is where.
\* The digest does not cover the sequence numbers themselves.
Checkpoint(g, entries) ==
    LET prefix == {e \in entries : e.sequence <= g} IN
    [generation |-> g,
     collection_digest |->
        {<<Cardinality({f \in prefix : f.sequence <= e.sequence}), e.key>>
           : e \in prefix}]

\* The MetadataConflict of collection_checkpoint and commit_offer_page.
Conflict(some, others) ==
    \E e \in some, f \in others : e.sequence = f.sequence \/ e.key = f.key

Cursors ==
    [mode : {"Delta"}, at : 1 .. Len(History)]
      \union [mode : {"Full"}, at : {History[i] : i \in 1 .. Len(History)}]

\* Faulty variant: the entry at the cursor is offered again.
NotBefore(position, cursor) == position >= cursor.at

After(position, cursor) == position > cursor.at

\* What reconcile may still offer: base is the receiver's checkpoint when the
\* authority knows it; a cursor of the other mode leaves nothing.
Candidates(g, base, cursor) ==
    {e \in Entries(g) :
        /\ base # None => e.sequence > base
        /\ cursor # None =>
             /\ cursor.mode = IF base # None THEN "Delta" ELSE "Full"
             /\ After(Position(e, cursor.mode), cursor)}

Leading(entries, mode, n) ==
    {e \in entries :
        Cardinality({f \in entries : Position(f, mode) <= Position(e, mode)})
          <= n}

\* The offers reconcile can return.  Where a page ends depends on the entry
\* limit and on the record size, so it may end after any entry up to PageLimit.
Offers(g, base, cursor) ==
    LET mode == IF base # None THEN "Delta" ELSE "Full"
        candidates == Candidates(g, base, cursor)
    IN {[mode |-> mode,
         base_generation |-> IF base # None THEN base ELSE 0,
         target_generation |-> g,
         descriptors |-> Leading(candidates, mode, n),
         more |-> n < Cardinality(candidates)]
        : n \in {m \in 1 .. PageLimit : m <= Cardinality(candidates)}}

First(offer) ==
    CHOOSE p \in {Position(e, offer.mode) : e \in offer.descriptors} :
        \A e \in offer.descriptors : p <= Position(e, offer.mode)

LastCursor(offer) ==
    [mode |-> offer.mode,
     at |-> CHOOSE p \in {Position(e, offer.mode) : e \in offer.descriptors} :
                \A e \in offer.descriptors : Position(e, offer.mode) <= p]

\* Every page that may be on its way, whatever it was asked for and whenever.
PossibleOffers ==
    UNION {Offers(g, base, cursor) :
             g \in 0 .. generation,
             base \in (0 .. generation) \union {None},
             cursor \in Cursors \union {None}}

\* The pages that answer the receiver's present checkpoint and cursor.
Base == IF mem.checkpoint.generation \in retained
        THEN mem.checkpoint.generation ELSE None

Cursor == IF mem.reconciliation = None THEN None ELSE mem.reconciliation.cursor

Answers == Offers(generation, Base, Cursor)

-----------------------------------------------------------------------------
(* The receiver's store.                                                   *)

Empty ==
    [checkpoint |-> Checkpoint(0, {}),
     retained_entries |-> {},
     reconciliation |-> None]

Spend(n) ==
    /\ disturbances + n <= MaxDisturbances
    /\ disturbances' = disturbances + n

\* save() at the end of an operation: it returns, or the store is lost with
\* the old or the new state on disk.
Save(collection, cost) ==
    \/ /\ durable' = collection
       /\ mem' = collection
       /\ open' = TRUE
       /\ Spend(cost)
    \/ /\ durable' \in {durable, collection}
       /\ mem' = Empty
       /\ open' = FALSE
       /\ Spend(cost + 1)

Crash ==
    /\ open
    /\ open' = FALSE
    /\ mem' = Empty
    /\ Spend(1)
    /\ UNCHANGED <<authorityVars, durable>>

Open ==
    /\ ~open
    /\ open' = TRUE
    /\ mem' = durable
    /\ UNCHANGED <<authorityVars, durable, disturbances>>

\* Can the reconciliation in progress still reach the authority's checkpoint?
Current ==
    /\ mem.reconciliation # None
    /\ mem.reconciliation.target.generation = generation
    /\ mem.reconciliation.mode = IF Base # None THEN "Delta" ELSE "Full"

Reconstructed ==
    LET r == mem.reconciliation
        kept == IF r.mode = "Delta" THEN mem.retained_entries ELSE {}
    IN [entries |-> kept \union r.accepted_entries,
        conflict |-> Conflict(kept, r.accepted_entries)]

\* Faulty variant: the reconstructed digest is not compared.
FinishesUnchecked ==
    /\ mem.reconciliation # None
    /\ mem.reconciliation.pages_complete
    /\ ~Reconstructed.conflict

\* The guards of finish_reconciliation.
Finishes ==
    /\ mem.reconciliation # None
    /\ mem.reconciliation.pages_complete
    /\ ~Reconstructed.conflict
    /\ Checkpoint(mem.reconciliation.target.generation, Reconstructed.entries)
         = mem.reconciliation.target

\* The store after a reconciliation with the authority's generation g started.
Begun(g, mode) ==
    [mem EXCEPT !.reconciliation =
        [prior |-> mem.checkpoint,
         target |-> Checkpoint(g, Entries(g)),
         mode |-> mode,
         cursor |-> None,
         accepted_entries |-> {},
         pages_complete |-> FALSE]]

\* Faulty variant: a target older than the checkpoint is accepted.
BeginBackwards(g, mode) ==
    /\ open
    /\ Save(Begun(g, mode), 1)
    /\ UNCHANGED authorityVars

\* begin_reconciliation from the committed checkpoint, for a summary of the
\* authority that may be old.
BeginReconciliation(g, mode) ==
    /\ open
    /\ mem.checkpoint.generation <= g
    /\ Save(Begun(g, mode), 1)
    /\ UNCHANGED authorityVars

\* The receiver starts over when its reconciliation cannot finish: a new
\* generation, a base the authority forgot, pages that left a gap.
Restart ==
    /\ open
    /\ mem.checkpoint.generation < generation
    /\ Current => mem.reconciliation.pages_complete /\ ~Finishes
    /\ Save(Begun(generation, IF Base # None THEN "Delta" ELSE "Full"), 0)
    /\ UNCHANGED authorityVars

\* Faulty variant: the cursor need not advance.
AdvancesAlways(offer) == TRUE

\* The offer belongs to the reconciliation in progress.
Matches(offer) ==
    /\ mem.reconciliation.target.generation = offer.target_generation
    /\ mem.reconciliation.mode = offer.mode
    /\ offer.mode = "Delta" =>
          mem.reconciliation.prior.generation = offer.base_generation

\* The page starts after the durable cursor.
Advances(offer) ==
    mem.reconciliation.cursor # None =>
        /\ mem.reconciliation.cursor.mode = offer.mode
        /\ mem.reconciliation.cursor.at < First(offer)

\* commit_offer_page of a page that is not the one just committed.
CommitOfferPage(offer) ==
    /\ open
    /\ mem.reconciliation # None
    /\ Matches(offer)
    /\ mem.reconciliation.cursor # LastCursor(offer)
    /\ Advances(offer)
    /\ ~Conflict(offer.descriptors, mem.reconciliation.accepted_entries)
    /\ Save([mem EXCEPT
                !.reconciliation.cursor = LastCursor(offer),
                !.reconciliation.accepted_entries = @ \union offer.descriptors,
                !.reconciliation.pages_complete = ~offer.more],
            IF offer \in Answers THEN 0 ELSE 1)
    /\ UNCHANGED authorityVars

\* finish_reconciliation.
FinishReconciliation ==
    /\ open
    /\ Finishes
    /\ Save([checkpoint |-> mem.reconciliation.target,
             retained_entries |-> Reconstructed.entries,
             reconciliation |-> None], 0)
    /\ UNCHANGED authorityVars

-----------------------------------------------------------------------------
(* The authority.                                                          *)

Publish ==
    /\ generation < Len(History)
    /\ generation' = generation + 1
    /\ retained' = retained \union {generation + 1}
    /\ UNCHANGED <<durable, mem, open, disturbances>>

\* The authority drops a checkpoint: the next page is a full inventory.
Forget(g) ==
    /\ g \in retained
    /\ retained' = retained \ {g}
    /\ UNCHANGED <<generation, durable, mem, open, disturbances>>

-----------------------------------------------------------------------------
Init ==
    /\ generation = 0
    /\ retained = {0}
    /\ durable = Empty
    /\ mem = Empty
    /\ open = FALSE
    /\ disturbances = 0

Next ==
    \/ Open
    \/ Crash
    \/ \E g \in 0 .. generation, mode \in {"Delta", "Full"} :
          BeginReconciliation(g, mode)
    \/ Restart
    \/ \E offer \in PossibleOffers : CommitOfferPage(offer)
    \/ FinishReconciliation
    \/ Publish
    \/ \E g \in Generations : Forget(g)

Spec == Init /\ [][Next]_vars

\* The receiver reopens, starts over, asks for the next page and finishes as
\* long as it can; the authority answers.
FairSpec ==
    /\ Spec
    /\ WF_vars(Open)
    /\ WF_vars(Restart)
    /\ WF_vars(\E offer \in Answers : CommitOfferPage(offer))
    /\ WF_vars(FinishReconciliation)

-----------------------------------------------------------------------------
(* Properties.                                                             *)

\* Field by field: enumerating Summary would be too much for TLC.
CollectionTypeOK(c) ==
    /\ c.checkpoint.generation \in Generations
    /\ c.retained_entries \subseteq Entries(Len(History))
    /\ c.reconciliation # None =>
         /\ c.reconciliation.target.generation \in Generations
         /\ c.reconciliation.mode \in {"Delta", "Full"}
         /\ c.reconciliation.cursor \in Cursors \union {None}
         /\ c.reconciliation.accepted_entries \subseteq Entries(Len(History))
         /\ c.reconciliation.pages_complete \in BOOLEAN

TypeOK ==
    /\ generation \in Generations
    /\ retained \subseteq Generations
    /\ CollectionTypeOK(durable)
    /\ CollectionTypeOK(mem)
    /\ open \in BOOLEAN
    /\ disturbances \in 0 .. MaxDisturbances

\* The committed checkpoint is one the authority had, and the entries retained
\* with it are exactly the authority's entries up to it: lost, late, repeated
\* or interleaved pages never produce a checkpoint of their own
\* (commit_offer_page, finish_reconciliation).
CheckpointIsAuthoritative ==
    LET g == durable.checkpoint.generation IN
    /\ g <= generation
    /\ durable.checkpoint = Checkpoint(g, Entries(g))
    /\ durable.retained_entries = Entries(g)

\* A page that matches the reconciliation and advances its cursor never
\* conflicts with an entry accepted before, so that commit_offer_page never
\* fails after it has begun to change the state in the handle.
PagesNeverConflict ==
    mem.reconciliation # None =>
        \A offer \in PossibleOffers :
            Matches(offer) /\ Advances(offer) =>
                ~Conflict(offer.descriptors,
                          mem.reconciliation.accepted_entries)

\* Once the authority stops appending and the carrier stops failing, the
\* receiver reaches its checkpoint.
EventuallyCaughtUp == <>[](durable.checkpoint.generation = generation)

Replica ==
    INSTANCE CollectionReplica WITH
        checkpoint <- durable.checkpoint.generation,
        keys <- {e.key : e \in durable.retained_entries}

\* Pages, cursors, crashes and restarts are invisible in the checkpoint: it is
\* promoted in one step, from one authority checkpoint to a later one.
ImplementsReplica == Replica!Spec
=============================================================================
