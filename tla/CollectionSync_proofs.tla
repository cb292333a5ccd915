------------------------ MODULE CollectionSync_proofs ------------------------
(***************************************************************************)
(* Safety of collection reconciliation, for every history, page limit and  *)
(* number of crashes, failed saves and stale or repeated records.          *)
(*                                                                         *)
(* The argument: every page offers entries of the authority; the entries a *)
(* reconciliation has accepted all lie at or before its cursor; and among  *)
(* the authority's entries a digest determines the set it was computed     *)
(* from, so that a reconstruction that compares equal is the target.       *)
(***************************************************************************)
EXTENDS CollectionSync, FiniteSetTheorems, WellFoundedInduction, TLAPS

-----------------------------------------------------------------------------
(* The inductive invariant.                                                *)

\* A reconciliation with the authority's generation, from the checkpoint
\* prior; what it accepted is not after its cursor.
ReconciliationInv(r, prior, last) ==
    LET g == r.target.generation IN
    /\ r = [prior |-> r.prior, target |-> r.target, mode |-> r.mode,
            cursor |-> r.cursor, accepted_entries |-> r.accepted_entries,
            pages_complete |-> r.pages_complete]
    /\ g \in Nat /\ prior <= g /\ g <= last
    /\ r.target = Checkpoint(g, Entries(g))
    /\ r.mode \in {"Delta", "Full"}
    /\ r.cursor \in Cursors \union {None}
    /\ r.accepted_entries \subseteq Entries(g)
    /\ r.pages_complete \in BOOLEAN
    /\ r.cursor = None => r.accepted_entries = {}
    /\ r.cursor # None =>
         /\ r.cursor.mode = r.mode
         /\ \A e \in r.accepted_entries : Position(e, r.mode) <= r.cursor.at

\* A collection state whose checkpoint is one the authority had, not after
\* generation last.
CollectionInv(c, last) ==
    LET g == c.checkpoint.generation IN
    /\ c = [checkpoint |-> c.checkpoint, retained_entries |-> c.retained_entries,
            reconciliation |-> c.reconciliation]
    /\ g \in Nat /\ g <= last
    /\ c.checkpoint = Checkpoint(g, Entries(g))
    /\ c.retained_entries = Entries(g)
    /\ c.reconciliation # None => ReconciliationInv(c.reconciliation, g, last)

SyncInv ==
    /\ generation \in Generations
    /\ retained \subseteq Generations
    /\ open \in BOOLEAN
    /\ disturbances \in 0 .. MaxDisturbances
    /\ CollectionInv(durable, generation)
    /\ CollectionInv(mem, generation)
    /\ open => mem = durable

-----------------------------------------------------------------------------
(* Least and greatest members.                                             *)

LEMMA LeastExists ==
  ASSUME NEW S \in SUBSET Nat, S # {}
  PROVE  \E m \in S : \A n \in S : m <= n
<1>1. PICK m \in S : \A n \in S : ~(<<n, m>> \in OpToRel(<, Nat))
  BY NatLessThanWellFounded, WFMin
<1>2. \A n \in S : ~(n < m)
  BY <1>1 DEF OpToRel
<1> QED BY <1>2

\* The member with the fewest members above it has none.
LEMMA GreatestExists ==
  ASSUME NEW S \in SUBSET Nat, IsFiniteSet(S), S # {}
  PROVE  \E m \in S : \A n \in S : n <= m
<1> DEFINE above(m) == {n \in S : n > m}
           counts == {Cardinality(above(m)) : m \in S}
<1>1. \A m \in S : IsFiniteSet(above(m)) /\ Cardinality(above(m)) \in Nat
  <2> TAKE m \in S
  <2>1. IsFiniteSet(above(m))
    BY FS_Subset
  <2> QED BY <2>1, FS_CardinalityType
<1>2. PICK k \in counts : \A n \in counts : k <= n
  <2>1. counts \in SUBSET Nat /\ counts # {}
    BY <1>1
  <2> HIDE DEF counts
  <2> QED BY <2>1, LeastExists
<1>3. PICK m \in S : k = Cardinality(above(m))
  BY <1>2
<1>4. ASSUME NEW n \in S, n > m
      PROVE  FALSE
  <2>1. above(n) \in SUBSET above(m) /\ n \in above(m) /\ n \notin above(n)
    <3>1. \A x \in S : x > n => x > m
      BY <1>4
    <3>2. ~(n > n)
      OBVIOUS
    <3> QED BY <1>4, <3>1, <3>2
  <2>2. /\ Cardinality(above(n)) <= Cardinality(above(m))
        /\ Cardinality(above(m)) = Cardinality(above(n)) => above(m) = above(n)
    <3> HIDE DEF above
    <3> QED BY <1>1, <2>1, FS_Subset
  <2>3. k <= Cardinality(above(n))
    BY <1>2
  <2> HIDE DEF above, counts
  <2>4. above(m) = above(n)
    BY <1>1, <1>3, <2>2, <2>3
  <2> QED BY <2>1, <2>4
<1> QED BY <1>4

-----------------------------------------------------------------------------
(* Entries, digests and pages.                                             *)

LEMMA HistoryType ==
  /\ Len(History) \in Nat
  /\ \A i \in 1 .. Len(History) : History[i] \in Nat
  /\ \A i, j \in 1 .. Len(History) : History[i] = History[j] => i = j
  BY ConstantsAssumption

\* Either coordinate of an entry identifies it.
LEMMA EntriesIdentified ==
  ASSUME NEW g \in Generations, NEW e \in Entries(g)
  PROVE  /\ e.sequence \in 1 .. g /\ e.key = History[e.sequence]
         /\ e.key \in Nat
         /\ \A f \in Entries(g) : e.sequence = f.sequence \/ e.key = f.key => e = f
<1>1. \A f \in Entries(g) :
        /\ f = [sequence |-> f.sequence, key |-> History[f.sequence]]
        /\ f.sequence \in 1 .. Len(History) /\ f.sequence <= g
  BY HistoryType DEF Entries, Generations
<1>2. \A f \in Entries(g) :
        e.sequence = f.sequence \/ e.key = f.key => e = f
  BY <1>1, HistoryType
<1> QED BY <1>1, <1>2, HistoryType DEF Generations

LEMMA PositionsIdentify ==
  ASSUME NEW g \in Generations, NEW e \in Entries(g), NEW f \in Entries(g),
         NEW mode
  PROVE  /\ Position(e, mode) \in Nat
         /\ Position(e, mode) = Position(f, mode) => e = f
<1>1. e.sequence \in Nat /\ e.key \in Nat
  BY EntriesIdentified
<1>2. e.sequence = f.sequence \/ e.key = f.key => e = f
  BY EntriesIdentified
<1> QED BY <1>1, <1>2 DEF Position

LEMMA EntriesGrow ==
  ASSUME NEW g \in Generations, NEW h \in Generations, g <= h
  PROVE  Entries(g) \subseteq Entries(h)
  BY HistoryType DEF Entries, Generations

\* Among the authority's entries the digest determines the entries.
LEMMA DigestDetermines ==
  ASSUME NEW g \in Generations, NEW some \in SUBSET Entries(g),
         Checkpoint(g, some) = Checkpoint(g, Entries(g))
  PROVE  some = Entries(g)
<1>1. \A entries \in SUBSET Entries(g) :
        {e \in entries : e.sequence <= g} = entries
  BY EntriesIdentified, HistoryType DEF Generations
<1> DEFINE digest(entries) ==
      {<<Cardinality({f \in entries : f.sequence <= e.sequence}), e.key>>
         : e \in entries}
<1>2. \A entries \in SUBSET Entries(g) :
        Checkpoint(g, entries).collection_digest = digest(entries)
  <2> TAKE entries \in SUBSET Entries(g)
  <2>1. {e \in entries : e.sequence <= g} = entries
    BY <1>1
  <2> QED BY <2>1 DEF Checkpoint
<1>3. digest(some) = digest(Entries(g))
  <2> HIDE DEF digest
  <2> QED BY <1>2
<1>4. ASSUME NEW e \in Entries(g)
      PROVE  e \in some
  <2>1. <<Cardinality({f \in Entries(g) : f.sequence <= e.sequence}), e.key>>
          \in digest(some)
    BY <1>3
  <2>2. PICK d \in some : d.key = e.key
    BY <2>1
  <2> QED BY <2>2, EntriesIdentified
<1> QED BY <1>4

\* A page lists, in one mode, some of the authority's entries and at least one.
OfferShape(offer, g) ==
    /\ offer.mode \in {"Delta", "Full"}
    /\ offer.target_generation = g
    /\ offer.descriptors \subseteq Entries(g)
    /\ offer.descriptors # {}
    /\ offer.more \in BOOLEAN

LEMMA OffersShaped ==
  ASSUME NEW g \in Generations, NEW base, NEW cursor,
         NEW offer \in Offers(g, base, cursor)
  PROVE  OfferShape(offer, g)
<1> DEFINE mode == IF base # None THEN "Delta" ELSE "Full"
           candidates == Candidates(g, base, cursor)
<1>1. PICK n \in 1 .. PageLimit :
        /\ n <= Cardinality(candidates)
        /\ offer = [mode |-> mode,
                    base_generation |-> IF base # None THEN base ELSE 0,
                    target_generation |-> g,
                    descriptors |-> Leading(candidates, mode, n),
                    more |-> n < Cardinality(candidates)]
  BY DEF Offers
<1>2. candidates \subseteq Entries(g)
  BY DEF Candidates
<1>3. candidates # {}
  <2> SUFFICES ASSUME candidates = {} PROVE FALSE
    OBVIOUS
  <2>1. Cardinality(candidates) = 0
    BY FS_EmptySet
  <2> HIDE DEF candidates
  <2> QED BY <1>1, <2>1, ConstantsAssumption
<1>4. Leading(candidates, mode, n) # {}
  <2> HIDE DEF candidates, mode
  <2> DEFINE positions == {Position(e, mode) : e \in candidates}
  <2>1. positions \in SUBSET Nat /\ positions # {}
    BY <1>2, <1>3, PositionsIdentify
  <2>2. PICK p \in positions : \A q \in positions : p <= q
    <3> HIDE DEF positions
    <3> QED BY <2>1, LeastExists
  <2>3. PICK e \in candidates : p = Position(e, mode)
    BY <2>2
  <2>4. {f \in candidates : Position(f, mode) <= Position(e, mode)} = {e}
    <3>1. \A f \in candidates :
            Position(f, mode) <= Position(e, mode)
              => Position(f, mode) = Position(e, mode)
      BY <2>1, <2>2, <2>3
    <3>2. Position(e, mode) <= Position(e, mode)
      BY <2>1, <2>2, <2>3
    <3>3. \A f \in candidates : Position(f, mode) = Position(e, mode) => f = e
      BY <1>2, PositionsIdentify
    <3> QED BY <3>1, <3>2, <3>3
  <2>5. Cardinality({e}) <= n
    <3>1. Cardinality({e}) = 1
      BY FS_Singleton
    <3> QED BY <3>1, ConstantsAssumption
  <2>6. e \in Leading(candidates, mode, n)
    BY <2>4, <2>5 DEF Leading
  <2> QED BY <2>6
<1>5. Leading(candidates, mode, n) \subseteq Entries(g)
  BY <1>2 DEF Leading
<1> HIDE DEF candidates
<1> QED BY <1>1, <1>4, <1>5 DEF OfferShape

\* The first and the last position of a page are there, and the cursor after it
\* is the last one.
LEMMA PageEnds ==
  ASSUME NEW g \in Generations, NEW offer, OfferShape(offer, g)
  PROVE  /\ First(offer) \in Nat
         /\ \A e \in offer.descriptors : First(offer) <= Position(e, offer.mode)
         /\ LastCursor(offer) \in Cursors
         /\ LastCursor(offer).mode = offer.mode
         /\ LastCursor(offer).at \in Nat
         /\ \A e \in offer.descriptors :
               Position(e, offer.mode) <= LastCursor(offer).at
<1> DEFINE positions == {Position(e, offer.mode) : e \in offer.descriptors}
<1>1. /\ positions \in SUBSET Nat /\ positions # {}
      /\ offer.mode = "Delta" => positions \subseteq 1 .. Len(History)
      /\ offer.mode = "Full" =>
           positions \subseteq {History[i] : i \in 1 .. Len(History)}
  <2>1. \A e \in offer.descriptors :
          /\ Position(e, offer.mode) \in Nat
          /\ e.sequence \in 1 .. Len(History) /\ e.key = History[e.sequence]
    BY EntriesIdentified, PositionsIdentify, HistoryType
    DEF OfferShape, Generations
  <2> QED BY <2>1 DEF OfferShape, Position
<1>2. IsFiniteSet(positions)
  <2> DEFINE keys == {History[i] : i \in 1 .. Len(History)}
  <2>1. IsFiniteSet(1 .. Len(History))
    BY FS_Interval, HistoryType
  <2>2. IsFiniteSet(keys)
    <3> DEFINE f == [i \in 1 .. Len(History) |-> History[i]]
    <3>1. f \in Surjection(1 .. Len(History), keys)
      BY DEF Surjection
    <3> HIDE DEF f, keys
    <3> QED BY <2>1, <3>1, FS_Surjection
  <2> HIDE DEF positions, keys
  <2>3. CASE offer.mode = "Delta"
    BY <1>1, <2>1, <2>3, FS_Subset
  <2>4. CASE offer.mode = "Full"
    BY <1>1, <2>2, <2>4, FS_Subset DEF keys
  <2> QED BY <2>3, <2>4 DEF OfferShape
<1>3. First(offer) \in positions /\ \A p \in positions : First(offer) <= p
  <2>1. \E p \in positions : \A q \in positions : p <= q
    <3> HIDE DEF positions
    <3> QED BY <1>1, LeastExists
  <2>2. First(offer) = CHOOSE p \in positions : \A q \in positions : p <= q
    BY DEF First
  <2> HIDE DEF positions
  <2> QED BY <2>1, <2>2
<1> DEFINE last == CHOOSE p \in positions : \A q \in positions : q <= p
<1>4. last \in positions /\ \A p \in positions : p <= last
  <2>1. \E p \in positions : \A q \in positions : q <= p
    <3> HIDE DEF positions
    <3> QED BY <1>1, <1>2, GreatestExists
  <2> HIDE DEF positions
  <2> QED BY <2>1
<1>5. LastCursor(offer) = [mode |-> offer.mode, at |-> last]
  BY DEF LastCursor
<1>6. LastCursor(offer) \in Cursors
  <2> HIDE DEF positions, last
  <2>1. CASE offer.mode = "Delta"
    <3>1. last \in 1 .. Len(History)
      BY <1>1, <1>4, <2>1
    <3> QED BY <1>5, <2>1, <3>1 DEF Cursors
  <2>2. CASE offer.mode = "Full"
    <3>1. last \in {History[i] : i \in 1 .. Len(History)}
      BY <1>1, <1>4, <2>2
    <3> QED BY <1>5, <2>2, <3>1 DEF Cursors
  <2> QED BY <2>1, <2>2 DEF OfferShape
<1>7. LastCursor(offer).mode = offer.mode /\ LastCursor(offer).at = last
  <2> HIDE DEF last
  <2> QED BY <1>5
<1> QED
  <2>1. \A e \in offer.descriptors : Position(e, offer.mode) \in positions
    OBVIOUS
  <2> HIDE DEF positions, last
  <2>2. last \in Nat /\ First(offer) \in Nat
    BY <1>1, <1>3, <1>4
  <2>3. \A e \in offer.descriptors :
          First(offer) <= Position(e, offer.mode)
            /\ Position(e, offer.mode) <= last
    BY <1>3, <1>4, <2>1
  <2> QED BY <1>6, <1>7, <2>2, <2>3

LEMMA PossibleOffersShaped ==
  ASSUME generation \in Generations, NEW offer \in PossibleOffers
  PROVE  \E g \in Generations : g <= generation /\ OfferShape(offer, g)
<1>1. PICK g \in 0 .. generation,
           base \in (0 .. generation) \union {None},
           cursor \in Cursors \union {None} : offer \in Offers(g, base, cursor)
  BY DEF PossibleOffers
<1>2. g \in Generations /\ g <= generation
  BY HistoryType DEF Generations
<1> QED BY <1>1, <1>2, OffersShaped

-----------------------------------------------------------------------------
(* Collection states.                                                      *)

LEMMA EmptyCollection ==
  ASSUME NEW last \in Nat
  PROVE  CollectionInv(Empty, last)
<1>1. Entries(0) = {}
  BY DEF Entries
<1>2. Checkpoint(0, {}).generation = 0
  BY DEF Checkpoint
<1> QED BY <1>1, <1>2 DEF CollectionInv, Empty

\* What was true of an earlier authority is true of a later one.
LEMMA CollectionLater ==
  ASSUME NEW c, NEW last \in Nat, NEW later \in Nat, last <= later,
         CollectionInv(c, last)
  PROVE  CollectionInv(c, later)
  BY DEF CollectionInv, ReconciliationInv

\* The nested updates, field by field.
LEMMA CollectionUpdates ==
  ASSUME NEW c, NEW checkpoint, NEW entries, NEW old, NEW new,
         c = [checkpoint |-> checkpoint, retained_entries |-> entries,
              reconciliation |-> old]
  PROVE  [c EXCEPT !.reconciliation = new] =
           [checkpoint |-> checkpoint, retained_entries |-> entries,
            reconciliation |-> new]
  OBVIOUS

Moved(r, cursor, accepted, complete) ==
    [r EXCEPT !.cursor = cursor, !.accepted_entries = accepted,
              !.pages_complete = complete]

LEMMA ReconciliationUpdates ==
  ASSUME NEW r, NEW cursor, NEW accepted, NEW complete,
         r = [prior |-> r.prior, target |-> r.target, mode |-> r.mode,
              cursor |-> r.cursor, accepted_entries |-> r.accepted_entries,
              pages_complete |-> r.pages_complete]
  PROVE  Moved(r, cursor, accepted, complete) =
           [prior |-> r.prior, target |-> r.target, mode |-> r.mode,
            cursor |-> cursor, accepted_entries |-> accepted,
            pages_complete |-> complete]
<1> DEFINE first == [r EXCEPT !.cursor = cursor]
           second == [first EXCEPT !.accepted_entries = accepted]
<1>1. first = [prior |-> r.prior, target |-> r.target, mode |-> r.mode,
               cursor |-> cursor, accepted_entries |-> r.accepted_entries,
               pages_complete |-> r.pages_complete]
  OBVIOUS
<1> HIDE DEF first
<1>2. second = [prior |-> r.prior, target |-> r.target, mode |-> r.mode,
                cursor |-> cursor, accepted_entries |-> accepted,
                pages_complete |-> r.pages_complete]
  BY <1>1
<1> HIDE DEF second
<1>3. [second EXCEPT !.pages_complete = complete] =
        [prior |-> r.prior, target |-> r.target, mode |-> r.mode,
         cursor |-> cursor, accepted_entries |-> accepted,
         pages_complete |-> complete]
  BY <1>2
<1> QED BY <1>3 DEF first, second, Moved

\* A started reconciliation.
LEMMA BegunCollection ==
  ASSUME SyncInv, NEW g \in Generations, NEW mode \in {"Delta", "Full"},
         mem.checkpoint.generation <= g, g <= generation
  PROVE  /\ CollectionInv(Begun(g, mode), generation)
         /\ Begun(g, mode).checkpoint = mem.checkpoint
<1> DEFINE r == [prior |-> mem.checkpoint,
                 target |-> Checkpoint(g, Entries(g)),
                 mode |-> mode,
                 cursor |-> None,
                 accepted_entries |-> {},
                 pages_complete |-> FALSE]
<1>1. Checkpoint(g, Entries(g)).generation = g
  BY DEF Checkpoint
<1>2. ReconciliationInv(r, mem.checkpoint.generation, generation)
  BY <1>1, HistoryType DEF ReconciliationInv, Generations
<1>3. Begun(g, mode) = [checkpoint |-> mem.checkpoint,
                        retained_entries |-> mem.retained_entries,
                        reconciliation |-> r]
  <2> HIDE DEF r
  <2>1. mem = [checkpoint |-> mem.checkpoint,
               retained_entries |-> mem.retained_entries,
               reconciliation |-> mem.reconciliation]
    BY DEF SyncInv, CollectionInv
  <2>2. Begun(g, mode) = [mem EXCEPT !.reconciliation = r]
    BY DEF Begun, r
  <2> QED BY <2>1, <2>2, CollectionUpdates
<1> HIDE DEF r
<1> QED BY <1>2, <1>3 DEF SyncInv, CollectionInv

\* A committed page.
PageCommitted(offer) ==
    [mem EXCEPT
        !.reconciliation.cursor = LastCursor(offer),
        !.reconciliation.accepted_entries = @ \union offer.descriptors,
        !.reconciliation.pages_complete = ~offer.more]

LEMMA PageCommittedCollection ==
  ASSUME SyncInv, NEW offer \in PossibleOffers, mem.reconciliation # None,
         Matches(offer), Advances(offer)
  PROVE  /\ CollectionInv(PageCommitted(offer), generation)
         /\ PageCommitted(offer).checkpoint = mem.checkpoint
         /\ PageCommitted(offer).retained_entries = mem.retained_entries
<1> DEFINE r == mem.reconciliation
           g == r.target.generation
           done == ~offer.more
           page == [prior |-> r.prior, target |-> r.target, mode |-> r.mode,
                    cursor |-> LastCursor(offer),
                    accepted_entries |-> r.accepted_entries
                                           \union offer.descriptors,
                    pages_complete |-> done]
<1>1. ReconciliationInv(r, mem.checkpoint.generation, generation)
  BY DEF SyncInv, CollectionInv
<1>2. g \in Generations
  BY <1>1, HistoryType DEF ReconciliationInv, SyncInv, Generations
<1>3. OfferShape(offer, g)
  BY PossibleOffersShaped DEF SyncInv, OfferShape, Matches
<1>4. /\ offer.mode = r.mode
      /\ LastCursor(offer) \in Cursors /\ LastCursor(offer).mode = r.mode
      /\ LastCursor(offer).at \in Nat
      /\ \A e \in offer.descriptors :
           /\ Position(e, r.mode) <= LastCursor(offer).at
           /\ First(offer) <= Position(e, r.mode)
           /\ Position(e, r.mode) \in Nat
      /\ First(offer) \in Nat
  <2>1. \A e \in offer.descriptors : Position(e, r.mode) \in Nat
    BY <1>2, <1>3, PositionsIdentify DEF OfferShape
  <2> QED BY <1>2, <1>3, <2>1, PageEnds DEF Matches
<1>5. \A e \in r.accepted_entries : Position(e, r.mode) <= LastCursor(offer).at
  <2> SUFFICES ASSUME NEW e \in r.accepted_entries
               PROVE  Position(e, r.mode) <= LastCursor(offer).at
    OBVIOUS
  <2>1. Position(e, r.mode) \in Nat
    BY <1>1, <1>2, PositionsIdentify DEF ReconciliationInv
  <2>2. r.cursor # None /\ r.cursor \in Cursors
    BY <1>1 DEF ReconciliationInv
  <2>3. Position(e, r.mode) <= r.cursor.at /\ r.cursor.at < First(offer)
    BY <1>1, <2>2 DEF ReconciliationInv, Advances
  <2>4. r.cursor.at \in Nat
    BY <2>2, HistoryType DEF Cursors
  <2>5. PICK d \in offer.descriptors : TRUE
    BY <1>3 DEF OfferShape
  <2> QED BY <1>4, <2>1, <2>3, <2>4, <2>5
<1>6. ReconciliationInv(page, mem.checkpoint.generation, generation)
  <2>1. page.accepted_entries \subseteq Entries(g)
    BY <1>1, <1>3 DEF ReconciliationInv, OfferShape
  <2>2. \A e \in page.accepted_entries :
          Position(e, page.mode) <= page.cursor.at
    BY <1>4, <1>5
  <2>3. page.cursor # None /\ page.cursor \in Cursors
    BY <1>4, ConstantsAssumption, HistoryType DEF Cursors
  <2>4. page.pages_complete \in BOOLEAN
    BY <1>3 DEF OfferShape
  <2> QED BY <1>1, <1>4, <2>1, <2>2, <2>3, <2>4 DEF ReconciliationInv
<1>7. PageCommitted(offer) = [checkpoint |-> mem.checkpoint,
                              retained_entries |-> mem.retained_entries,
                              reconciliation |-> page]
  <2>1. mem = [checkpoint |-> mem.checkpoint,
               retained_entries |-> mem.retained_entries,
               reconciliation |-> r]
    BY DEF SyncInv, CollectionInv
  <2>2. r = [prior |-> r.prior, target |-> r.target, mode |-> r.mode,
             cursor |-> r.cursor, accepted_entries |-> r.accepted_entries,
             pages_complete |-> r.pages_complete]
    BY <1>1 DEF ReconciliationInv
  <2> HIDE DEF r, done
  <2>3. page = Moved(r, LastCursor(offer),
                     r.accepted_entries \union offer.descriptors, done)
    BY <2>2, ReconciliationUpdates
  <2>4. PageCommitted(offer) = [mem EXCEPT !.reconciliation = page]
    <3> HIDE DEF page
    <3> QED BY <2>1, <2>3 DEF PageCommitted, Moved, r, done
  <2> HIDE DEF page
  <2> QED BY <2>1, <2>4, CollectionUpdates
<1> HIDE DEF r, page
<1> QED BY <1>6, <1>7 DEF SyncInv, CollectionInv

\* A finished reconciliation retains exactly the authority's entries.
LEMMA FinishedCollection ==
  ASSUME SyncInv, Finishes
  PROVE  LET c == [checkpoint |-> mem.reconciliation.target,
                   retained_entries |-> Reconstructed.entries,
                   reconciliation |-> None]
         IN /\ CollectionInv(c, generation)
            /\ mem.checkpoint.generation <= c.checkpoint.generation
<1> DEFINE r == mem.reconciliation
           g == r.target.generation
           h == mem.checkpoint.generation
<1>1. ReconciliationInv(r, h, generation)
  BY DEF SyncInv, CollectionInv, Finishes
<1>2. g \in Generations /\ h \in Generations /\ h <= g /\ g <= generation
  BY <1>1, HistoryType
  DEF ReconciliationInv, SyncInv, CollectionInv, Generations
<1>3. Reconstructed.entries \in SUBSET Entries(g)
  <2>1. mem.retained_entries \subseteq Entries(g)
    BY <1>2, EntriesGrow DEF SyncInv, CollectionInv
  <2>2. r.accepted_entries \subseteq Entries(g)
    BY <1>1 DEF ReconciliationInv
  <2> QED BY <2>1, <2>2 DEF Reconstructed
<1>4. r.target = Checkpoint(g, Entries(g))
  BY <1>1 DEF ReconciliationInv
<1>5. Reconstructed.entries = Entries(g)
  BY <1>2, <1>3, <1>4, DigestDetermines DEF Finishes
<1> HIDE DEF r
<1> QED BY <1>2, <1>4, <1>5 DEF CollectionInv, Generations, r

-----------------------------------------------------------------------------
(* Every step preserves the invariant and never takes the checkpoint back. *)

Kept ==
    /\ SyncInv'
    /\ durable.checkpoint.generation <= durable'.checkpoint.generation

LEMMA SyncInvInit ==
  Init => SyncInv
<1> SUFFICES ASSUME Init PROVE SyncInv
  OBVIOUS
<1>1. CollectionInv(durable, generation) /\ CollectionInv(mem, generation)
  BY EmptyCollection DEF Init
<1>2. /\ generation \in Generations /\ retained \subseteq Generations
      /\ disturbances \in 0 .. MaxDisturbances
  BY HistoryType, ConstantsAssumption DEF Init, Generations
<1> QED BY <1>1, <1>2 DEF Init, SyncInv

LEMMA SaveKeeps ==
  ASSUME SyncInv, open, UNCHANGED authorityVars,
         NEW c, CollectionInv(c, generation),
         mem.checkpoint.generation <= c.checkpoint.generation,
         NEW cost \in {0, 1}, Save(c, cost)
  PROVE  Kept
<1>1. generation \in Nat /\ generation' = generation /\ retained' = retained
  BY HistoryType DEF SyncInv, Generations, authorityVars
<1>2. /\ durable' \in {durable, c} /\ mem' \in {c, Empty} /\ open' \in BOOLEAN
      /\ open' => mem' = durable'
  BY DEF Save
<1>3. CollectionInv(durable', generation') /\ CollectionInv(mem', generation')
  BY <1>1, <1>2, EmptyCollection DEF SyncInv
<1>4. disturbances' \in 0 .. MaxDisturbances
  BY ConstantsAssumption DEF Save, Spend, SyncInv
<1>5. (generation \in Generations)' /\ (retained \subseteq Generations)'
  BY <1>1 DEF SyncInv, Generations
<1>6. durable.checkpoint.generation <= durable'.checkpoint.generation
  BY <1>2 DEF SyncInv, CollectionInv
<1> QED BY <1>2, <1>3, <1>4, <1>5, <1>6 DEF SyncInv, Kept

LEMMA BeginKeeps ==
  ASSUME SyncInv, open, UNCHANGED authorityVars,
         NEW g \in 0 .. generation, NEW mode \in {"Delta", "Full"},
         mem.checkpoint.generation <= g,
         NEW cost \in {0, 1}, Save(Begun(g, mode), cost)
  PROVE  Kept
<1>1. g \in Generations /\ g <= generation
  BY HistoryType DEF SyncInv, Generations
<1>2. /\ CollectionInv(Begun(g, mode), generation)
      /\ Begun(g, mode).checkpoint = mem.checkpoint
  BY <1>1, BegunCollection
<1>3. mem.checkpoint.generation <= Begun(g, mode).checkpoint.generation
  BY <1>2 DEF SyncInv, CollectionInv
<1> QED BY <1>2, <1>3, SaveKeeps

LEMMA StepKeeps ==
  ASSUME SyncInv, [Next]_vars
  PROVE  Kept
<1>1. /\ generation \in Nat /\ generation <= Len(History)
      /\ durable.checkpoint.generation \in Nat
      /\ mem.checkpoint.generation \in Nat
  BY HistoryType DEF SyncInv, CollectionInv, Generations
<1>2. CASE Open
  <2>1. /\ generation' = generation /\ retained' = retained
        /\ disturbances' = disturbances /\ open' = TRUE
        /\ durable' = durable /\ mem' = durable
    BY <1>2 DEF Open, authorityVars
  <2>2. CollectionInv(durable', generation') /\ CollectionInv(mem', generation')
    BY <2>1 DEF SyncInv
  <2>3. (generation \in Generations)' /\ (retained \subseteq Generations)'
    BY <2>1 DEF SyncInv, Generations
  <2> QED BY <1>1, <2>1, <2>2, <2>3 DEF SyncInv, Kept
<1>3. CASE Crash
  <2>1. disturbances' \in 0 .. MaxDisturbances
    BY <1>3, ConstantsAssumption DEF Crash, Spend, SyncInv
  <2>2. /\ generation' = generation /\ retained' = retained
        /\ open' = FALSE /\ durable' = durable /\ mem' = Empty
    BY <1>3 DEF Crash, authorityVars
  <2>3. CollectionInv(durable', generation') /\ CollectionInv(mem', generation')
    BY <1>1, <2>2, EmptyCollection DEF SyncInv
  <2>4. (generation \in Generations)' /\ (retained \subseteq Generations)'
    BY <2>2 DEF SyncInv, Generations
  <2>5. (open \in BOOLEAN)' /\ (open => mem = durable)'
    BY <2>2
  <2>6. durable.checkpoint.generation <= durable'.checkpoint.generation
    BY <1>1, <2>2
  <2> QED BY <2>1, <2>3, <2>4, <2>5, <2>6 DEF SyncInv, Kept
<1>4. ASSUME NEW g \in 0 .. generation, NEW mode \in {"Delta", "Full"},
             BeginReconciliation(g, mode)
      PROVE  Kept
  BY <1>4, BeginKeeps DEF BeginReconciliation
<1>5. CASE Restart
  <2>1. generation \in 0 .. generation
    BY <1>1
  <2> QED BY <1>1, <1>5, <2>1, BeginKeeps DEF Restart
<1>6. ASSUME NEW offer \in PossibleOffers, CommitOfferPage(offer)
      PROVE  Kept
  <2> DEFINE c == PageCommitted(offer)
             cost == IF offer \in Answers THEN 0 ELSE 1
  <2>1. CollectionInv(c, generation) /\ c.checkpoint = mem.checkpoint
    BY <1>6, PageCommittedCollection DEF CommitOfferPage
  <2>2. open /\ UNCHANGED authorityVars /\ Save(c, cost) /\ cost \in {0, 1}
    BY <1>6 DEF CommitOfferPage, PageCommitted
  <2>3. mem.checkpoint.generation <= c.checkpoint.generation
    BY <1>1, <2>1
  <2> HIDE DEF c, cost
  <2> QED BY <2>1, <2>2, <2>3, SaveKeeps
<1>7. CASE FinishReconciliation
  <2> DEFINE c == [checkpoint |-> mem.reconciliation.target,
                   retained_entries |-> Reconstructed.entries,
                   reconciliation |-> None]
  <2>1. /\ CollectionInv(c, generation)
        /\ mem.checkpoint.generation <= c.checkpoint.generation
    BY <1>7, FinishedCollection DEF FinishReconciliation
  <2>2. open /\ UNCHANGED authorityVars /\ Save(c, 0)
    BY <1>7 DEF FinishReconciliation
  <2> HIDE DEF c
  <2> QED BY <2>1, <2>2, SaveKeeps
<1>8. CASE Publish
  <2>1. generation' \in Generations /\ retained' \subseteq Generations
    BY <1>1, <1>8, HistoryType DEF Publish, SyncInv, Generations
  <2>2. CollectionInv(durable, generation') /\ CollectionInv(mem, generation')
    BY <1>1, <1>8, CollectionLater DEF Publish, SyncInv
  <2> QED BY <1>1, <1>8, <2>1, <2>2 DEF Publish, SyncInv, Kept
<1>9. ASSUME NEW g \in Generations, Forget(g)
      PROVE  Kept
  BY <1>1, <1>9 DEF Forget, SyncInv, Kept
<1>10. CASE UNCHANGED vars
  BY <1>1, <1>10 DEF vars, SyncInv, Kept
<1> QED BY <1>2, <1>3, <1>4, <1>5, <1>6, <1>7, <1>8, <1>9, <1>10 DEF Next

\* The invariant holds whatever pages arrive, in whatever order, and wherever
\* the receiver stops.
THEOREM SyncInvariant == Spec => []SyncInv
<1>1. SyncInv /\ [Next]_vars => SyncInv'
  BY StepKeeps DEF Kept
<1> QED BY <1>1, SyncInvInit, PTL DEF Spec

-----------------------------------------------------------------------------
(* What it shows.                                                          *)

\* Every variable keeps its type.
THEOREM SyncTyped == Spec => []TypeOK
<1>1. SyncInv => TypeOK
  <2> SUFFICES ASSUME SyncInv PROVE TypeOK
    OBVIOUS
  <2>1. \A g \in Nat : g <= generation =>
          g \in Generations /\ Entries(g) \subseteq Entries(Len(History))
    <3> TAKE g \in Nat
    <3>1. g <= generation => g \in Generations /\ g <= Len(History)
      BY HistoryType DEF SyncInv, Generations
    <3>2. Len(History) \in Generations
      BY HistoryType DEF Generations
    <3> QED BY <3>1, <3>2, EntriesGrow
  <2>2. ASSUME NEW c, CollectionInv(c, generation)
        PROVE  CollectionTypeOK(c)
    <3>1. /\ c.checkpoint.generation \in Generations
          /\ c.retained_entries \subseteq Entries(Len(History))
      BY <2>1, <2>2 DEF CollectionInv
    <3>2. ASSUME c.reconciliation # None
          PROVE  /\ c.reconciliation.target.generation \in Generations
                 /\ c.reconciliation.mode \in {"Delta", "Full"}
                 /\ c.reconciliation.cursor \in Cursors \union {None}
                 /\ c.reconciliation.accepted_entries
                      \subseteq Entries(Len(History))
                 /\ c.reconciliation.pages_complete \in BOOLEAN
      BY <2>1, <2>2, <3>2 DEF CollectionInv, ReconciliationInv
    <3> QED BY <3>1, <3>2 DEF CollectionTypeOK
  <2> QED BY <2>2 DEF SyncInv, TypeOK
<1> QED BY <1>1, SyncInvariant, PTL

\* A committed checkpoint is always one the authority had, with exactly the
\* authority's entries up to it (finish_reconciliation).
THEOREM CheckpointsAreAuthoritative == Spec => []CheckpointIsAuthoritative
<1>1. SyncInv => CheckpointIsAuthoritative
  BY DEF SyncInv, CollectionInv, CheckpointIsAuthoritative
<1> QED BY <1>1, SyncInvariant, PTL

\* No page that may arrive and that commit_offer_page would take conflicts with
\* what is accepted already.
THEOREM PagesFit == Spec => []PagesNeverConflict
<1>1. SyncInv => PagesNeverConflict
  <2> SUFFICES ASSUME SyncInv, mem.reconciliation # None,
                      NEW offer \in PossibleOffers,
                      Matches(offer), Advances(offer),
                      NEW e \in offer.descriptors,
                      NEW f \in mem.reconciliation.accepted_entries,
                      e.sequence = f.sequence \/ e.key = f.key
               PROVE  FALSE
    BY DEF PagesNeverConflict, Conflict
  <2> DEFINE r == mem.reconciliation
             g == r.target.generation
  <2>1. ReconciliationInv(r, mem.checkpoint.generation, generation)
    BY DEF SyncInv, CollectionInv
  <2>2. g \in Generations
    BY <2>1, HistoryType DEF ReconciliationInv, SyncInv, Generations
  <2>3. OfferShape(offer, g)
    BY PossibleOffersShaped DEF SyncInv, OfferShape, Matches
  <2>4. e \in Entries(g) /\ f \in Entries(g)
    BY <2>1, <2>3 DEF ReconciliationInv, OfferShape
  <2>5. e = f
    BY <2>2, <2>4, EntriesIdentified
  <2>6. First(offer) \in Nat /\ First(offer) <= Position(e, r.mode)
    BY <2>2, <2>3, PageEnds DEF Matches
  <2>7. /\ r.cursor \in Cursors
        /\ Position(f, r.mode) <= r.cursor.at /\ r.cursor.at < First(offer)
    BY <2>1 DEF ReconciliationInv, Advances
  <2>8. r.cursor.at \in Nat /\ Position(e, r.mode) \in Nat
    BY <2>2, <2>4, <2>7, HistoryType, PositionsIdentify DEF Cursors
  <2> QED BY <2>5, <2>6, <2>7, <2>8
<1> QED BY <1>1, SyncInvariant, PTL

LEMMA EntryKeys ==
  ASSUME NEW g
  PROVE  {e.key : e \in Entries(g)} = {History[i] : i \in 1 .. g}
<1>1. ASSUME NEW i \in 1 .. g
      PROVE  \E e \in Entries(g) : e.key = History[i]
  <2> DEFINE e == [sequence |-> i, key |-> History[i]]
  <2>1. e \in Entries(g) /\ e.key = History[i]
    BY DEF Entries
  <2> QED BY <2>1
<1>2. \A e \in Entries(g) : \E i \in 1 .. g : e.key = History[i]
  BY DEF Entries
<1> QED BY <1>1, <1>2

\* Reconciliation implements the replica: however many pages, crashes and
\* restarts it takes, the checkpoint moves in one step, from one of the
\* authority's checkpoints to a later one.
THEOREM SyncImplementsReplica == Spec => ImplementsReplica
<1>1. Init => Replica!Init
  BY DEF Init, Empty, Checkpoint, Replica!Init
<1>2. SyncInv /\ [Next]_vars => [Replica!Next]_(Replica!replicaVars)
  <2> SUFFICES ASSUME SyncInv, [Next]_vars
               PROVE  [Replica!Next]_(Replica!replicaVars)
    OBVIOUS
  <2> DEFINE keys == {e.key : e \in durable.retained_entries}
             g == durable.checkpoint.generation
  <2>1. Kept
    BY StepKeeps
  <2>2. keys' = {History[i] : i \in 1 .. g'}
    <3>1. durable'.retained_entries = Entries(g')
      BY <2>1 DEF Kept, SyncInv, CollectionInv
    <3> HIDE DEF g
    <3> QED BY <3>1, EntryKeys
  <2>3. keys = {History[i] : i \in 1 .. g}
    <3>1. durable.retained_entries = Entries(g)
      BY DEF SyncInv, CollectionInv
    <3> HIDE DEF g
    <3> QED BY <3>1, EntryKeys
  <2>4. g \in Nat /\ g' \in Nat /\ g <= g' /\ g' <= generation'
    BY <2>1 DEF Kept, SyncInv, CollectionInv
  <2>5. CASE Publish
    BY <2>5 DEF Publish, Replica!Next, Replica!Publish
  <2>6. CASE generation' = generation
    <3>1. CASE g' = g
      BY <2>2, <2>3, <2>6, <3>1 DEF Replica!replicaVars
    <3>2. CASE g' # g
      <4>1. generation \in Nat
        BY HistoryType DEF SyncInv, Generations
      <4>2. g' \in g + 1 .. generation
        BY <2>4, <2>6, <3>2, <4>1
      <4> HIDE DEF keys, g
      <4> QED BY <2>2, <2>6, <4>2 DEF Replica!Next, Replica!CatchUp, keys, g
    <3> QED BY <3>1, <3>2
  <2>7. Publish \/ generation' = generation
    BY DEF Next, vars, Open, Crash, BeginReconciliation, Restart,
           CommitOfferPage, FinishReconciliation, Forget, authorityVars
  <2> QED BY <2>5, <2>6, <2>7
<1> QED
  BY <1>1, <1>2, SyncInvariant, PTL DEF Spec, ImplementsReplica, Replica!Spec
=============================================================================
