------------------------ MODULE ProtocolStore_proofs ------------------------
(***************************************************************************)
(* Proofs about ProtocolStore, for every set of profiles, receipts,        *)
(* objects and scopes and every number of disturbances.  What the store    *)
(* keeps is proved for every caller; that the open handle never runs ahead *)
(* of the files, and that the store implements RetainedFacts, for callers  *)
(* that reopen the store after an error (RetryInPlace = FALSE).            *)
(***************************************************************************)
EXTENDS ProtocolStore, TLAPS

(***************************************************************************)
(* The inductive invariant.  A slot holds only states whose sequence has   *)
(* its parity, so that the slot a save rewrites is never the one the       *)
(* handle was read from.                                                   *)
(***************************************************************************)
SlotsInv ==
    \A i \in Valid(slots) : slots[i].sequence > 0 /\ slots[i].sequence % 2 = i

\* The slot the handle was read from or last saved to is still there.  The
\* other one is older, or holds what a save that failed did write.
HandleInv ==
    open =>
        /\ mem.sequence > 0 =>
              /\ mem.sequence % 2 \in Valid(slots)
              /\ slots[mem.sequence % 2].sequence = mem.sequence
        /\ \A i \in Valid(slots) : slots[i].sequence <= mem.sequence + 1

StoreInv ==
    /\ TypeOK
    /\ SlotsInv
    /\ HandleInv

-----------------------------------------------------------------------------
(* Facts about the facts.                                                  *)

\* An update keeps the type of a record, whatever the types of its fields.
LEMMA RecordUpdate ==
  ASSUME NEW A, NEW B,
         NEW r \in [retryable : A, condition_changed : B,
                    automatic_retry_attempts : 0 .. 1],
         NEW b \in B
  PROVE  /\ [r EXCEPT !.condition_changed = b]
              \in [retryable : A, condition_changed : B,
                   automatic_retry_attempts : 0 .. 1]
         /\ [r EXCEPT !.automatic_retry_attempts = 1]
              \in [retryable : A, condition_changed : B,
                   automatic_retry_attempts : 0 .. 1]
  OBVIOUS

LEMMA FactsTypes ==
  ASSUME NEW f \in Facts
  PROVE  /\ \A profile \in Profiles : Negotiated(f, profile) \in Facts
         /\ \A id \in Receipts : WithReceipt(f, id) \in Facts
         /\ \A object \in Objects, digest \in Digests :
              Bound(f, object, digest) \in Facts
         /\ \A scope \in Scopes, retryable \in BOOLEAN :
              Failed(f, scope, retryable) \in Facts
         /\ \A scope \in Scopes :
              f.failures[scope] # None =>
                 /\ ConditionChanged(f, scope) \in Facts
                 /\ Retried(f, scope) \in Facts
<1>1. \A profile \in Profiles : Negotiated(f, profile) \in Facts
  BY DEF Facts, Negotiated
<1>2. \A id \in Receipts : WithReceipt(f, id) \in Facts
  BY DEF Facts, WithReceipt
<1>3. ASSUME NEW object \in Objects, NEW digest \in Digests
      PROVE  Bound(f, object, digest) \in Facts
  BY DEF Facts, Bound
<1>4. ASSUME NEW scope \in Scopes, NEW retryable \in BOOLEAN
      PROVE  Failed(f, scope, retryable) \in Facts
  <2>1. Observed(retryable) \in FailureState
    BY DEF Observed, FailureState
  <2> QED BY <2>1 DEF Facts, Failed
<1>5. ASSUME NEW scope \in Scopes, f.failures[scope] # None
      PROVE  /\ ConditionChanged(f, scope) \in Facts
             /\ Retried(f, scope) \in Facts
  <2>1. f.failures[scope] \in FailureState
    BY <1>5 DEF Facts
  <2> DEFINE r == f.failures[scope]
             g(new) == [f.failures EXCEPT ![scope] = new]
  <2>2. /\ [r EXCEPT !.condition_changed = TRUE] \in FailureState
        /\ [r EXCEPT !.automatic_retry_attempts = 1] \in FailureState
    BY <2>1, RecordUpdate, Zenon DEF FailureState
  <2>3. ASSUME NEW new \in FailureState
        PROVE  [f EXCEPT !.failures = g(new)] \in Facts
    BY <2>3 DEF Facts
  <2>4. ConditionChanged(f, scope) =
          [f EXCEPT !.failures = g([r EXCEPT !.condition_changed = TRUE])]
    BY DEF ConditionChanged
  <2>5. Retried(f, scope) =
          [f EXCEPT !.failures = g([r EXCEPT !.automatic_retry_attempts = 1])]
    BY DEF Retried
  <2> HIDE DEF g, r
  <2> QED BY <2>2, <2>3, <2>4, <2>5
<1> QED BY <1>1, <1>2, <1>3, <1>4, <1>5

LEMMA DefaultType == Default \in State /\ NoFacts \in Facts
<1>1. NoFacts \in Facts
  BY DEF NoFacts, Facts
<1> QED BY <1>1, ConstantsAssumption DEF Default, State

-----------------------------------------------------------------------------
(* Facts about the slots.                                                  *)

\* A valid slot with the highest sequence is the one open starts from.
LEMMA LatestIs ==
  ASSUME NEW files, NEW i \in Valid(files),
         \A j \in Valid(files) : files[j].sequence \in Nat,
         \A j \in Valid(files) : j # i => files[j].sequence < files[i].sequence
  PROVE  Latest(files) = files[i]
<1> DEFINE P(k) == k \in Valid(files) /\ \A j \in Valid(files) :
                      files[j].sequence <= files[k].sequence
<1>1. P(i)
  OBVIOUS
<1>2. ASSUME NEW k, P(k) PROVE k = i
  BY <1>2
<1>3. (CHOOSE k : P(k)) = i
  BY <1>1, <1>2
<1>4. (CHOOSE k \in Valid(files) : \A j \in Valid(files) :
          files[j].sequence <= files[k].sequence) = i
  BY <1>3
<1> QED BY <1>4 DEF Latest

LEMMA ValidType ==
  ASSUME TypeOK
  PROVE  \A i \in Valid(slots) : i \in 0 .. 1 /\ slots[i] \in State
                                 /\ slots[i].sequence \in Nat
  BY ConstantsAssumption DEF TypeOK, Valid, State

\* The newest state is in a slot of its parity, older ones are in the other.
LEMMA NewestSlot ==
  ASSUME NEW files \in [0 .. 1 -> State \union {Missing, Torn}],
         \A i \in Valid(files) : files[i].sequence % 2 = i,
         Valid(files) # {}
  PROVE  \E i \in Valid(files) :
           /\ Latest(files) = files[i]
           /\ \A j \in Valid(files) :
                j # i => files[j].sequence < files[i].sequence
<1>1. \A i \in Valid(files) : i \in 0 .. 1 /\ files[i].sequence \in Nat
  BY ConstantsAssumption DEF Valid, State
<1>2. \A i, j \in Valid(files) :
        i # j => files[i].sequence # files[j].sequence
  OBVIOUS
<1>3. \E i \in Valid(files) : \A j \in Valid(files) :
        j # i => files[j].sequence < files[i].sequence
  <2>1. CASE 0 \in Valid(files) /\ 1 \in Valid(files)
    BY <1>1, <1>2, <2>1
  <2>2. CASE ~(0 \in Valid(files) /\ 1 \in Valid(files))
    <3>1. PICK i \in Valid(files) : TRUE
      OBVIOUS
    <3>2. \A j \in Valid(files) : j = i
      BY <1>1, <2>2, <3>1
    <3> QED BY <3>1, <3>2
  <2> QED BY <2>1, <2>2
<1> QED BY <1>1, <1>3, LatestIs

LEMMA LatestSlot ==
  ASSUME TypeOK, SlotsInv, Valid(slots) # {}
  PROVE  \E i \in Valid(slots) :
           /\ Latest(slots) = slots[i]
           /\ \A j \in Valid(slots) :
                j # i => slots[j].sequence < slots[i].sequence
  BY NewestSlot DEF TypeOK, SlotsInv

LEMMA LatestType ==
  ASSUME TypeOK, SlotsInv
  PROVE  Latest(slots) \in State
<1>1. CASE Valid(slots) = {}
  BY <1>1, DefaultType DEF Latest
<1>2. CASE Valid(slots) # {}
  BY <1>2, LatestSlot, ValidType
<1> QED BY <1>1, <1>2

LEMMA OpenFacts ==
  ASSUME StoreInv, open
  PROVE  /\ mem \in State
         /\ mem.facts \in Facts
         /\ mem.sequence \in Nat
  BY ConstantsAssumption DEF StoreInv, TypeOK, State

\* What a save writes, and the slot it writes it to.
Saved(facts) == [sequence |-> mem.sequence + 1, facts |-> facts]
Target == Slot(mem.sequence + 1)

LEMMA SavedFields ==
  ASSUME NEW facts
  PROVE  Saved(facts).facts = facts /\ Saved(facts).sequence = mem.sequence + 1
  BY DEF Saved

\* What rewriting a slot leaves: the slot the handle came from is not touched,
\* and the new state, if it got there, is the newest.
LEMMA RewriteOutcome ==
  ASSUME StoreInv, open, NEW facts \in Facts, CanAdvance(mem.sequence),
         NEW content \in {slots[Target], Torn, Saved(facts)},
         slots' = [slots EXCEPT ![Target] = content]
  PROVE  /\ slots' \in [0 .. 1 -> State \union {Missing, Torn}]
         /\ Saved(facts) \in State
         /\ Target \in 0 .. 1 /\ mem.sequence % 2 \in 0 .. 1
         /\ Target # mem.sequence % 2
         /\ Target = (mem.sequence + 1) % 2
         /\ slots'[Target] = content
         /\ \A i \in 0 .. 1 : i # Target => slots'[i] = slots[i]
         /\ \A i \in 0 .. 1 :
              i # Target => (i \in Valid(slots') <=> i \in Valid(slots))
         /\ \A i \in Valid(slots') :
              /\ i \in 0 .. 1
              /\ slots'[i].sequence \in Nat
              /\ slots'[i].sequence > 0
              /\ slots'[i].sequence % 2 = i
              /\ slots'[i].sequence <= mem.sequence + 1
              /\ \/ slots'[i] = Saved(facts)
                 \/ i \in Valid(slots) /\ slots'[i] = slots[i]
         /\ content = Saved(facts) =>
              Latest(slots') = Saved(facts) /\ Target \in Valid(slots')
<1>1. /\ mem \in State
      /\ mem.sequence \in Nat
      /\ slots \in [0 .. 1 -> State \union {Missing, Torn}]
  BY OpenFacts DEF StoreInv, TypeOK
<1>2. /\ Saved(facts) \in State
      /\ Saved(facts).sequence = mem.sequence + 1
      /\ Saved(facts).sequence \in Nat
  BY <1>1, ConstantsAssumption DEF State, CanAdvance, Saved
<1>3. /\ Target \in 0 .. 1
      /\ Target = (mem.sequence + 1) % 2
      /\ mem.sequence % 2 \in 0 .. 1
      /\ Target # mem.sequence % 2
  BY <1>1, <1>2 DEF Slot, Target
<1>4. Saved(facts) \notin {Missing, Torn}
  BY <1>2, ConstantsAssumption DEF State
<1>5. slots' \in [0 .. 1 -> State \union {Missing, Torn}]
  <2>1. slots[Target] \in State \union {Missing, Torn}
    BY <1>1, <1>3
  <2> QED BY <1>1, <1>2, <1>3, <2>1
<1>6. /\ slots'[Target] = content
      /\ \A i \in 0 .. 1 : i # Target => slots'[i] = slots[i]
  BY <1>1, <1>3
<1>7. \A i \in 0 .. 1 :
        i # Target => (i \in Valid(slots') <=> i \in Valid(slots))
  BY <1>6 DEF Valid
<1>8. ASSUME NEW i \in Valid(slots')
      PROVE  /\ i \in 0 .. 1
             /\ slots'[i].sequence \in Nat
             /\ slots'[i].sequence > 0
             /\ slots'[i].sequence % 2 = i
             /\ slots'[i].sequence <= mem.sequence + 1
             /\ \/ slots'[i] = Saved(facts)
                \/ i \in Valid(slots) /\ slots'[i] = slots[i]
  <2>1. i \in 0 .. 1 /\ slots'[i] \notin {Missing, Torn}
    BY DEF Valid
  <2>2. slots'[i].sequence \in Nat
    BY <1>5, <2>1, ConstantsAssumption DEF State
  <2>3. CASE slots'[i] = Saved(facts) /\ i = Target
    BY <1>1, <1>2, <1>3, <2>1, <2>3
  <2>4. CASE ~(slots'[i] = Saved(facts) /\ i = Target)
    <3>1. i \in Valid(slots) /\ slots'[i] = slots[i]
      BY <1>6, <1>7, <2>1, <2>4 DEF Valid
    <3> QED BY <2>1, <2>2, <3>1 DEF StoreInv, SlotsInv, HandleInv
  <2> QED BY <2>3, <2>4
<1>9. ASSUME content = Saved(facts)
      PROVE  Latest(slots') = Saved(facts) /\ Target \in Valid(slots')
  <2>1. Target \in Valid(slots')
    BY <1>3, <1>4, <1>6, <1>9 DEF Valid
  <2>2. \A j \in Valid(slots') : slots'[j].sequence \in Nat
    BY <1>8
  <2>3. ASSUME NEW j \in Valid(slots'), j # Target
        PROVE  slots'[j].sequence < slots'[Target].sequence
    <3>1. /\ slots'[j].sequence \in Nat
          /\ slots'[j].sequence % 2 = j
          /\ slots'[j].sequence <= mem.sequence + 1
      BY <1>8
    <3>2. slots'[j].sequence # mem.sequence + 1
      BY <1>3, <2>3, <3>1
    <3>3. slots'[Target].sequence = mem.sequence + 1
      BY <1>2, <1>6, <1>9
    <3> QED BY <1>1, <3>1, <3>2, <3>3
  <2> DEFINE files == slots'
  <2>4. Latest(files) = files[Target]
    <3>1. /\ Target \in Valid(files)
          /\ \A j \in Valid(files) : files[j].sequence \in Nat
          /\ \A j \in Valid(files) :
               j # Target => files[j].sequence < files[Target].sequence
      BY <2>1, <2>2, <2>3
    <3> HIDE DEF files
    <3> QED BY <3>1, LatestIs
  <2> QED BY <1>6, <1>9, <2>1, <2>4
<1> QED BY <1>2, <1>3, <1>5, <1>6, <1>7, <1>8, <1>9

-----------------------------------------------------------------------------
(* A save at the end of an operation.                                      *)

\* The operation returned Ok: facts are in the handle and in the newest slot.
Returned(facts) ==
    /\ open'
    /\ mem' = Latest(slots')
    /\ mem'.facts = facts
    /\ mem'.sequence = mem.sequence + 1
    /\ Valid(slots') # {}
    /\ \A i \in Valid(slots') :
          slots'[i].sequence >= mem'.sequence => slots'[i] = mem'
    /\ acknowledged' = facts

\* It did not: facts may be in a slot, and in a handle that is kept.
Lost(facts) ==
    /\ open' =>
          /\ RetryInPlace
          /\ mem'.facts = facts
          /\ mem'.sequence = mem.sequence
    /\ mem'.sequence <= mem.sequence
    /\ mem.sequence > 0 =>
          /\ Valid(slots') # {}
          /\ \E i \in Valid(slots') : slots'[i].sequence = mem.sequence
    /\ \A i \in Valid(slots') :
          \/ slots'[i].facts = facts
          \/ i \in Valid(slots) /\ slots'[i] = slots[i]
    /\ acknowledged' = acknowledged

LEMMA StoppedFacts ==
  ASSUME StoreInv, open, NEW facts \in Facts, Stopped(facts)
  PROVE  /\ mem' \in State
         /\ open' \in BOOLEAN
         /\ acknowledged' = acknowledged
         /\ mem'.sequence <= mem.sequence
         /\ open' => /\ RetryInPlace
                     /\ mem'.facts = facts
                     /\ mem'.sequence = mem.sequence
<1>1. mem \in State /\ mem.sequence \in Nat
  BY OpenFacts
<1>2. CASE open' = FALSE /\ mem' = Default
  <2>1. mem'.sequence = 0 /\ mem' \in State
    BY <1>2, DefaultType DEF Default
  <2>2. acknowledged' = acknowledged
    BY DEF Stopped
  <2>3. mem'.sequence <= mem.sequence
    BY <1>1, <2>1
  <2> QED BY <1>2, <2>1, <2>2, <2>3, Zenon
<1>3. CASE /\ RetryInPlace
           /\ open' = TRUE
           /\ mem' = [mem EXCEPT !.facts = facts]
  <2>1. /\ mem' \in State
        /\ mem'.facts = facts
        /\ mem'.sequence = mem.sequence
    BY <1>1, <1>3 DEF State
  <2>2. acknowledged' = acknowledged
    BY DEF Stopped
  <2> QED BY <1>1, <1>3, <2>1, <2>2
<1> QED BY <1>2, <1>3 DEF Stopped

\* A save returns, fails in the write, or finds the sequence exhausted.
LEMMA SaveCases ==
  ASSUME NEW facts, NEW cost, Save(facts, cost)
  PROVE  \/ /\ CanAdvance(mem.sequence)
            /\ slots' = [slots EXCEPT ![Target] = Saved(facts)]
            /\ mem' = Saved(facts)
            /\ open' = TRUE
            /\ acknowledged' = facts
            /\ Spend(cost)
         \/ /\ CanAdvance(mem.sequence)
            /\ \E content \in {slots[Target], Torn, Saved(facts)} :
                 slots' = [slots EXCEPT ![Target] = content]
            /\ Stopped(facts)
            /\ Spend(cost + 1)
         \/ /\ slots' = slots
            /\ Stopped(facts)
            /\ Spend(cost)
  BY DEF Save, Saved, Target

LEMMA SavePreserves ==
  ASSUME StoreInv, open,
         NEW facts \in Facts, NEW cost \in Nat, Save(facts, cost),
         granted' \in [Scopes -> Nat]
  PROVE  StoreInv' /\ (Returned(facts) \/ Lost(facts))
<1> DEFINE k == mem.sequence % 2
<1>1. mem \in State /\ mem.sequence \in Nat
  BY OpenFacts
<1>2. /\ disturbances \in 0 .. MaxDisturbances
      /\ acknowledged \in Facts
      /\ slots \in [0 .. 1 -> State \union {Missing, Torn}]
  BY DEF StoreInv, TypeOK
<1>3. /\ Spend(cost) => disturbances' \in 0 .. MaxDisturbances
      /\ Spend(cost + 1) => disturbances' \in 0 .. MaxDisturbances
  BY <1>2, ConstantsAssumption DEF Spend
<1>4. mem.sequence > 0 =>
        k \in Valid(slots) /\ slots[k].sequence = mem.sequence
  BY DEF StoreInv, HandleInv
<1>5. \A i \in Valid(slots) : slots[i].sequence <= mem.sequence + 1
  BY DEF StoreInv, HandleInv
<1>6. Saved(facts).facts = facts /\ Saved(facts).sequence = mem.sequence + 1
  BY SavedFields
<1>7. CASE /\ CanAdvance(mem.sequence)
           /\ slots' = [slots EXCEPT ![Target] = Saved(facts)]
           /\ mem' = Saved(facts)
           /\ open' = TRUE
           /\ acknowledged' = facts
           /\ Spend(cost)
  <2>1. /\ slots' \in [0 .. 1 -> State \union {Missing, Torn}]
        /\ Saved(facts) \in State
        /\ slots'[Target] = Saved(facts)
        /\ Target \in Valid(slots')
        /\ Latest(slots') = Saved(facts)
        /\ Target = (mem.sequence + 1) % 2
        /\ \A i \in Valid(slots') :
             /\ i \in 0 .. 1
             /\ slots'[i].sequence \in Nat
             /\ slots'[i].sequence > 0
             /\ slots'[i].sequence % 2 = i
             /\ slots'[i].sequence <= mem.sequence + 1
    BY <1>7, RewriteOutcome
  <2>2. TypeOK'
    BY <1>3, <1>7, <2>1 DEF TypeOK
  <2>3. SlotsInv'
    BY <2>1 DEF SlotsInv, Valid
  <2>4. mem'.sequence = mem.sequence + 1 /\ mem'.facts = facts
    BY <1>6, <1>7
  <2>5. HandleInv'
    <3>1. mem'.sequence % 2 \in Valid(slots')
          /\ slots'[mem'.sequence % 2].sequence = mem'.sequence
      BY <1>7, <2>1, <2>4
    <3>2. \A i \in Valid(slots') : slots'[i].sequence <= mem'.sequence + 1
      BY <1>1, <2>1, <2>4
    <3> QED BY <3>1, <3>2 DEF HandleInv, Valid
  <2>6. Returned(facts)
    <3>1. ASSUME NEW i \in Valid(slots'), slots'[i].sequence >= mem'.sequence
          PROVE  slots'[i] = mem'
      <4>1. slots'[i].sequence = mem.sequence + 1
        BY <1>1, <2>1, <2>4, <3>1
      <4>2. i = Target
        BY <2>1, <4>1
      <4> QED BY <1>7, <2>1, <4>2
    <3> QED BY <1>7, <2>1, <2>4, <3>1 DEF Returned
  <2> QED BY <2>2, <2>3, <2>5, <2>6 DEF StoreInv
<1>8. CASE /\ CanAdvance(mem.sequence)
           /\ \E content \in {slots[Target], Torn, Saved(facts)} :
                slots' = [slots EXCEPT ![Target] = content]
           /\ Stopped(facts)
           /\ Spend(cost + 1)
  <2>1. PICK content \in {slots[Target], Torn, Saved(facts)} :
          slots' = [slots EXCEPT ![Target] = content]
    BY <1>8
  <2>2. /\ slots' \in [0 .. 1 -> State \union {Missing, Torn}]
        /\ k \in 0 .. 1 /\ k # Target
        /\ slots'[k] = slots[k]
        /\ k \in Valid(slots') <=> k \in Valid(slots)
        /\ \A i \in Valid(slots') :
             /\ slots'[i].sequence > 0
             /\ slots'[i].sequence % 2 = i
             /\ slots'[i].sequence <= mem.sequence + 1
             /\ \/ slots'[i] = Saved(facts)
                \/ i \in Valid(slots) /\ slots'[i] = slots[i]
    BY <1>8, <2>1, RewriteOutcome
  <2> HIDE DEF k
  <2>3. TypeOK'
    BY <1>2, <1>3, <1>8, <2>2, StoppedFacts DEF TypeOK
  <2>4. SlotsInv'
    BY <2>2 DEF SlotsInv, Valid
  <2>5. HandleInv'
    <3>1. open' => mem'.sequence = mem.sequence
      BY <1>8, StoppedFacts
    <3> QED BY <1>4, <2>2, <3>1 DEF HandleInv, Valid, k
  <2>6. Lost(facts)
    BY <1>4, <1>6, <1>8, <2>2, StoppedFacts DEF Lost
  <2> QED BY <2>3, <2>4, <2>5, <2>6 DEF StoreInv
<1>9. CASE slots' = slots /\ Stopped(facts) /\ Spend(cost)
  <2>1. TypeOK'
    BY <1>2, <1>3, <1>9, StoppedFacts DEF TypeOK
  <2>2. SlotsInv'
    BY <1>9 DEF StoreInv, SlotsInv, Valid
  <2>3. HandleInv'
    BY <1>9, StoppedFacts DEF StoreInv, HandleInv, Valid
  <2>4. Lost(facts)
    BY <1>4, <1>9, StoppedFacts DEF Lost
  <2> QED BY <2>1, <2>2, <2>3, <2>4 DEF StoreInv
<1> QED BY <1>7, <1>8, <1>9, SaveCases

-----------------------------------------------------------------------------
(* The steps.                                                              *)

\* What an operation makes of the facts in the handle and of the grants.
Operates(facts) ==
    \/ /\ \/ \E profile \in Profiles : facts = Negotiated(mem.facts, profile)
          \/ \E id \in Receipts \ mem.facts.receipt_ids :
                facts = WithReceipt(mem.facts, id)
          \/ \E object \in Objects, digest \in Digests :
                /\ mem.facts.object_bindings[object] = None
                /\ facts = Bound(mem.facts, object, digest)
          \/ \E scope \in Scopes :
                /\ mem.facts.failures[scope] # None
                /\ facts = ConditionChanged(mem.facts, scope)
       /\ granted' = granted
    \/ \E scope \in Scopes, retryable \in BOOLEAN :
          /\ facts = Failed(mem.facts, scope, retryable)
          /\ granted' = [granted EXCEPT ![scope] = 0]
    \/ \E scope \in Scopes :
          /\ MayRetry(mem.facts, scope)
          /\ facts = Retried(mem.facts, scope)
          /\ \/ granted' = granted
             \/ /\ mem'.sequence > mem.sequence
                /\ granted' = [granted EXCEPT ![scope] = @ + 1]

\* A step opens the store, stops the process, or is an operation that returned
\* or was lost.
StepCases ==
    \/ Open
    \/ Crash
    \/ /\ open
       /\ \E facts \in Facts : Operates(facts) /\ (Returned(facts) \/ Lost(facts))

LEMMA OperationStep ==
  ASSUME StoreInv, open, NEW facts \in Facts, Operates(facts),
         NEW cost \in Nat, Save(facts, cost), granted' \in [Scopes -> Nat]
  PROVE  StoreInv' /\ StepCases
  BY SavePreserves DEF StepCases

LEMMA StepOutcome ==
  ASSUME StoreInv, Next
  PROVE  StoreInv' /\ StepCases
<1> USE DEF StoreInv
<1>1. granted \in [Scopes -> Nat]
  BY DEF TypeOK
<1>2. ASSUME open
      PROVE  mem.facts \in Facts
  BY <1>2, OpenFacts
<1>3. CASE Open
  <2>1. Latest(slots) \in State
    BY LatestType
  <2>2. TypeOK' /\ SlotsInv'
    BY <1>3, <2>1 DEF Open, TypeOK, SlotsInv, Valid
  <2>3. HandleInv'
    <3>1. CASE Valid(slots) = {}
      <4>1. mem'.sequence = 0
        BY <1>3, <3>1 DEF Open, Latest, Default
      <4> QED BY <1>3, <3>1, <4>1 DEF Open, HandleInv, Valid
    <3>2. CASE Valid(slots) # {}
      <4>1. PICK i \in Valid(slots) :
              /\ Latest(slots) = slots[i]
              /\ \A j \in Valid(slots) :
                   j # i => slots[j].sequence < slots[i].sequence
        BY <3>2, LatestSlot
      <4>2. mem' = slots[i] /\ slots' = slots
        BY <1>3, <4>1 DEF Open
      <4>3. slots[i].sequence % 2 = i
        BY DEF SlotsInv
      <4>4. \A j \in Valid(slots) : slots[j].sequence <= slots[i].sequence + 1
        BY <4>1, ValidType
      <4> QED BY <4>2, <4>3, <4>4 DEF HandleInv, Valid
    <3> QED BY <3>1, <3>2
  <2> QED BY <1>3, <2>2, <2>3 DEF StepCases
<1>4. CASE Crash
  <2>1. TypeOK'
    <3>1. disturbances' \in 0 .. MaxDisturbances
      BY <1>4, ConstantsAssumption DEF Crash, Spend, TypeOK
    <3>2. mem' \in State
      BY <1>4, DefaultType DEF Crash
    <3> QED BY <1>4, <3>1, <3>2 DEF Crash, TypeOK
  <2>2. SlotsInv' /\ HandleInv'
    BY <1>4 DEF Crash, SlotsInv, HandleInv, Valid
  <2> QED BY <1>4, <2>1, <2>2 DEF StepCases
<1>5. ASSUME NEW profile \in Profiles, PersistNegotiation(profile)
      PROVE  StoreInv' /\ StepCases
  <2> DEFINE facts == Negotiated(mem.facts, profile)
  <2>1. /\ open
        /\ Save(facts, 1)
        /\ granted' = granted
    BY <1>5 DEF PersistNegotiation
  <2>2. facts \in Facts /\ Operates(facts)
    BY <1>2, <2>1, FactsTypes DEF Operates
  <2> HIDE DEF facts
  <2> QED BY <1>1, <2>1, <2>2, OperationStep
<1>6. ASSUME NEW id \in Receipts, CommitReceipt(id)
      PROVE  StoreInv' /\ StepCases
  <2> DEFINE facts == WithReceipt(mem.facts, id)
  <2>1. /\ open
        /\ id \notin mem.facts.receipt_ids
        /\ Save(facts, 0)
        /\ granted' = granted
    BY <1>6 DEF CommitReceipt
  <2>2. facts \in Facts /\ Operates(facts)
    BY <1>2, <2>1, FactsTypes DEF Operates
  <2> HIDE DEF facts
  <2> QED BY <1>1, <2>1, <2>2, OperationStep
<1>7. ASSUME NEW object \in Objects, NEW digest \in Digests,
             ObserveImmutableObject(object, digest)
      PROVE  StoreInv' /\ StepCases
  <2> DEFINE facts == Bound(mem.facts, object, digest)
  <2>1. /\ open
        /\ mem.facts.object_bindings[object] = None
        /\ Save(facts, 0)
        /\ granted' = granted
    BY <1>7 DEF ObserveImmutableObject
  <2>2. facts \in Facts /\ Operates(facts)
    BY <1>2, <2>1, FactsTypes DEF Operates
  <2> HIDE DEF facts
  <2> QED BY <1>1, <2>1, <2>2, OperationStep
<1>8. ASSUME NEW scope \in Scopes, NEW retryable \in BOOLEAN,
             RecordFailure(scope, retryable)
      PROVE  StoreInv' /\ StepCases
  <2> DEFINE facts == Failed(mem.facts, scope, retryable)
             cost == IF mem.facts.failures[scope] = None THEN 0 ELSE 1
  <2>1. /\ open
        /\ Save(facts, cost)
        /\ granted' = [granted EXCEPT ![scope] = 0]
    BY <1>8 DEF RecordFailure
  <2>2. facts \in Facts /\ Operates(facts) /\ cost \in Nat
    BY <1>2, <2>1, FactsTypes DEF Operates
  <2>3. granted' \in [Scopes -> Nat]
    BY <1>1, <2>1
  <2> HIDE DEF facts, cost
  <2> QED BY <2>1, <2>2, <2>3, OperationStep
<1>9. ASSUME NEW scope \in Scopes, MarkFailureConditionChanged(scope)
      PROVE  StoreInv' /\ StepCases
  <2> DEFINE facts == ConditionChanged(mem.facts, scope)
             cost == IF mem.facts.failures[scope].condition_changed
                     THEN 1 ELSE 0
  <2>1. /\ open
        /\ mem.facts.failures[scope] # None
        /\ Save(facts, cost)
        /\ granted' = granted
    BY <1>9 DEF MarkFailureConditionChanged
  <2>2. facts \in Facts /\ Operates(facts) /\ cost \in Nat
    BY <1>2, <2>1, FactsTypes DEF Operates
  <2> HIDE DEF facts, cost
  <2> QED BY <1>1, <2>1, <2>2, OperationStep
<1>10. ASSUME NEW scope \in Scopes, TakeFailureRetry(scope)
       PROVE  StoreInv' /\ StepCases
  <2> DEFINE facts == Retried(mem.facts, scope)
  <2>1. /\ open
        /\ MayRetry(mem.facts, scope)
        /\ Save(facts, 0)
        /\ \/ granted' = granted
           \/ /\ mem'.sequence > mem.sequence
              /\ granted' = [granted EXCEPT ![scope] = @ + 1]
    BY <1>10 DEF TakeFailureRetry
  <2>2. facts \in Facts /\ Operates(facts)
    BY <1>2, <2>1, FactsTypes DEF Operates, MayRetry
  <2>3. granted' \in [Scopes -> Nat]
    BY <1>1, <2>1
  <2> HIDE DEF facts
  <2> QED BY <2>1, <2>2, <2>3, OperationStep
<1> HIDE DEF StoreInv
<1> QED BY <1>3, <1>4, <1>5, <1>6, <1>7, <1>8, <1>9, <1>10 DEF Next

LEMMA InitInv == Init => StoreInv
<1> SUFFICES ASSUME Init PROVE StoreInv
  OBVIOUS
<1>1. Valid(slots) = {}
  BY DEF Init, Valid
<1>2. TypeOK
  <2>1. slots \in [0 .. 1 -> State \union {Missing, Torn}]
    BY DEF Init
  <2>2. mem \in State /\ acknowledged \in Facts
    BY DefaultType DEF Init
  <2>3. granted \in [Scopes -> Nat] /\ disturbances \in 0 .. MaxDisturbances
    BY ConstantsAssumption DEF Init
  <2> QED BY <2>1, <2>2, <2>3 DEF Init, TypeOK
<1> QED BY <1>1, <1>2 DEF StoreInv, SlotsInv, HandleInv, Init

LEMMA StoreInvStutter ==
  ASSUME StoreInv, UNCHANGED vars
  PROVE  StoreInv'
  BY DEF vars, StoreInv, TypeOK, SlotsInv, HandleInv, Valid

\* In every reachable state the slots hold states of their own parity, the slot
\* the handle came from is intact, and no slot is more than one save ahead of
\* the handle, whatever the caller does after an error (save, open).
THEOREM StoreInvariant == Spec => []StoreInv
<1>1. Init => StoreInv
  BY InitInv
<1>2. StoreInv /\ [Next]_vars => StoreInv'
  BY StepOutcome, StoreInvStutter
<1> QED BY <1>1, <1>2, PTL DEF Spec

\* Every variable keeps its type.
THEOREM TypeCorrect == Spec => []TypeOK
<1>1. StoreInv => TypeOK
  BY DEF StoreInv
<1> QED BY <1>1, StoreInvariant, PTL
-----------------------------------------------------------------------------
(* What is kept.  A handle that went on after an error may hold, and save    *)
(* with its next operation, facts that are newer than the last acknowledged  *)
(* ones, and a slot may hold them already.  The invariant therefore speaks   *)
(* of every state that could be the next one read: the newest slot, the      *)
(* handle, and the slots not older than the handle.                          *)

\* f has the acknowledged receipts and bindings, and counts every retry granted.
Keeps(f) ==
    /\ acknowledged.receipt_ids \subseteq f.receipt_ids
    /\ \A object \in Objects :
         acknowledged.object_bindings[object] # None =>
           f.object_bindings[object] = acknowledged.object_bindings[object]
    /\ \A scope \in Scopes :
         granted[scope] = 1 => f.failures[scope].automatic_retry_attempts = 1

KeptInv ==
    /\ \A scope \in Scopes : granted[scope] <= 1
    /\ Keeps(Latest(slots).facts)
    /\ open =>
         /\ Keeps(mem.facts)
         /\ \A i \in Valid(slots) :
              slots[i].sequence >= mem.sequence => Keeps(slots[i].facts)
    /\ open /\ mem.sequence = 0 => Keeps(NoFacts) /\ acknowledged = NoFacts
    /\ Valid(slots) = {} => acknowledged = NoFacts

\* The same of the next state, for facts f of this state or the next.
KeepsNext(f) ==
    /\ acknowledged'.receipt_ids \subseteq f.receipt_ids
    /\ \A object \in Objects :
         acknowledged'.object_bindings[object] # None =>
           f.object_bindings[object] = acknowledged'.object_bindings[object]
    /\ \A scope \in Scopes :
         granted'[scope] = 1 => f.failures[scope].automatic_retry_attempts = 1

LEMMA KeptInvNext ==
  ASSUME \A scope \in Scopes : granted'[scope] <= 1,
         KeepsNext(Latest(slots').facts),
         open' => /\ KeepsNext(mem'.facts)
                  /\ \A i \in Valid(slots') :
                       slots'[i].sequence >= mem'.sequence =>
                         KeepsNext(slots'[i].facts),
         open' /\ mem'.sequence = 0 =>
           KeepsNext(NoFacts) /\ acknowledged' = NoFacts,
         Valid(slots') = {} => acknowledged' = NoFacts
  PROVE  KeptInv'
  BY Zenon DEF KeptInv, Keeps, KeepsNext, Valid, Latest, Default, NoFacts

\* An operation adds to the receipts and bindings, and counts what it grants.
Extends(f, g) ==
    /\ g.receipt_ids \subseteq f.receipt_ids
    /\ \A object \in Objects :
         g.object_bindings[object] # None =>
           f.object_bindings[object] = g.object_bindings[object]

LEMMA OperatesExtends ==
  ASSUME StoreInv, open, NEW facts \in Facts, Operates(facts)
  PROVE  Extends(facts, mem.facts)
<1>1. mem.facts \in Facts
  BY OpenFacts
<1> QED BY <1>1 DEF Operates, Extends, Facts, Negotiated, WithReceipt, Bound,
                    ConditionChanged, Failed, Retried

\* Changing the condition of a failure leaves its retry count.
LEMMA ConditionKeepsAttempts ==
  ASSUME NEW f \in Facts, NEW scope \in Scopes, f.failures[scope] # None,
         NEW s \in Scopes
  PROVE  ConditionChanged(f, scope).failures[s].automatic_retry_attempts
           = f.failures[s].automatic_retry_attempts
<1>1. f.failures \in [Scopes -> FailureState \union {None}]
  BY DEF Facts
<1>2. f.failures[scope] \in FailureState
  BY <1>1
<1>3. [f.failures[scope] EXCEPT !.condition_changed = TRUE]
        .automatic_retry_attempts = f.failures[scope].automatic_retry_attempts
  BY <1>2, Zenon DEF FailureState
<1>4. ConditionChanged(f, scope).failures =
        [f.failures EXCEPT ![scope] =
           [f.failures[scope] EXCEPT !.condition_changed = TRUE]]
  BY DEF ConditionChanged, Facts
<1> QED BY <1>1, <1>3, <1>4

LEMMA OperatesCounts ==
  ASSUME StoreInv, StoreInv', KeptInv, open, NEW facts \in Facts, Operates(facts),
         NEW s \in Scopes
  PROVE  /\ granted'[s] <= 1
         /\ granted'[s] = 1 => facts.failures[s].automatic_retry_attempts = 1
         /\ mem'.sequence <= mem.sequence /\ granted'[s] = 1 => granted[s] = 1
<1>1. /\ mem.facts \in Facts
      /\ mem.sequence \in Nat /\ mem'.sequence \in Nat
      /\ granted \in [Scopes -> Nat]
  BY OpenFacts, ConstantsAssumption DEF StoreInv, TypeOK, State
<1>2. /\ \A scope \in Scopes : granted[scope] <= 1
      /\ \A scope \in Scopes :
           granted[scope] = 1 =>
             mem.facts.failures[scope].automatic_retry_attempts = 1
  BY DEF KeptInv, Keeps
<1>3. mem.facts.failures \in [Scopes -> FailureState \union {None}]
  BY <1>1 DEF Facts
<1>4. CASE /\ facts.failures = mem.facts.failures
           /\ granted' = granted
  BY <1>2, <1>4
<1>5. ASSUME NEW scope \in Scopes, mem.facts.failures[scope] # None,
             facts = ConditionChanged(mem.facts, scope), granted' = granted
      PROVE  /\ granted'[s] <= 1
             /\ granted'[s] = 1 =>
                  facts.failures[s].automatic_retry_attempts = 1
             /\ granted'[s] = 1 => granted[s] = 1
  BY <1>1, <1>2, <1>5, ConditionKeepsAttempts
<1>6. ASSUME NEW scope \in Scopes, NEW retryable \in BOOLEAN,
             facts = Failed(mem.facts, scope, retryable),
             granted' = [granted EXCEPT ![scope] = 0]
      PROVE  /\ granted'[s] <= 1
             /\ granted'[s] = 1 =>
                  facts.failures[s].automatic_retry_attempts = 1
             /\ granted'[s] = 1 => granted[s] = 1
  <2>1. facts.failures =
          [mem.facts.failures EXCEPT ![scope] = Observed(retryable)]
    BY <1>1, <1>6 DEF Failed, Facts
  <2> QED BY <1>1, <1>2, <1>3, <1>6, <2>1
<1>7. ASSUME NEW scope \in Scopes, MayRetry(mem.facts, scope),
             facts = Retried(mem.facts, scope),
             \/ granted' = granted
             \/ /\ mem'.sequence > mem.sequence
                /\ granted' = [granted EXCEPT ![scope] = @ + 1]
      PROVE  /\ granted'[s] <= 1
             /\ granted'[s] = 1 =>
                  facts.failures[s].automatic_retry_attempts = 1
             /\ mem'.sequence <= mem.sequence /\ granted'[s] = 1 =>
                  granted[s] = 1
  <2>1. granted[scope] = 0
    BY <1>1, <1>2, <1>7 DEF MayRetry
  <2>2. mem.facts.failures[scope] \in FailureState
    BY <1>3, <1>7 DEF MayRetry
  <2>3. facts.failures =
          [mem.facts.failures EXCEPT ![scope] =
             [mem.facts.failures[scope] EXCEPT !.automatic_retry_attempts = 1]]
    BY <1>1, <1>7 DEF Retried, Facts
  <2>4. [mem.facts.failures[scope] EXCEPT !.automatic_retry_attempts = 1]
          .automatic_retry_attempts = 1
    BY <2>2, Zenon DEF FailureState
  <2>5. facts.failures[scope].automatic_retry_attempts = 1
    BY <1>3, <2>3, <2>4
  <2>6. CASE s = scope
    BY <1>1, <1>7, <2>1, <2>5, <2>6
  <2>7. CASE s # scope
    <3>1. facts.failures[s] = mem.facts.failures[s] /\ granted'[s] = granted[s]
      BY <1>1, <1>3, <1>7, <2>3, <2>7
    <3> QED BY <1>2, <3>1
  <2> QED BY <2>6, <2>7
<1>8. CASE /\ \/ \E profile \in Profiles : facts = Negotiated(mem.facts, profile)
              \/ \E id \in Receipts \ mem.facts.receipt_ids :
                    facts = WithReceipt(mem.facts, id)
              \/ \E object \in Objects, digest \in Digests :
                    /\ mem.facts.object_bindings[object] = None
                    /\ facts = Bound(mem.facts, object, digest)
           /\ granted' = granted
  BY <1>1, <1>4, <1>8 DEF Negotiated, WithReceipt, Bound, Facts
<1> QED BY <1>5, <1>6, <1>7, <1>8 DEF Operates

\* What an operation makes of facts that keep everything keeps everything.
LEMMA OperatesKeeps ==
  ASSUME StoreInv, StoreInv', KeptInv, open, NEW facts \in Facts, Operates(facts),
         acknowledged' \in {acknowledged, facts}
  PROVE  KeepsNext(facts)
<1>1. Keeps(mem.facts)
  BY DEF KeptInv
<1>2. \A scope \in Scopes :
        granted'[scope] = 1 =>
          facts.failures[scope].automatic_retry_attempts = 1
  BY OperatesCounts
<1>3. CASE acknowledged' = facts
  BY <1>2, <1>3 DEF KeepsNext
<1>4. CASE acknowledged' = acknowledged
  <2>1. Extends(facts, mem.facts)
    BY OperatesExtends
  <2> QED BY <1>1, <1>2, <1>4, <2>1 DEF Extends, Keeps, KeepsNext
<1> QED BY <1>3, <1>4

\* An operation that was lost leaves what was kept kept.
LEMMA LostKeeps ==
  ASSUME StoreInv, StoreInv', KeptInv, open, NEW facts \in Facts, Operates(facts),
         Lost(facts), NEW f, Keeps(f)
  PROVE  KeepsNext(f)
<1>1. acknowledged' = acknowledged /\ mem'.sequence <= mem.sequence
  BY DEF Lost
<1>2. \A scope \in Scopes : granted'[scope] = 1 => granted[scope] = 1
  BY <1>1, OperatesCounts
<1> QED BY <1>1, <1>2 DEF Keeps, KeepsNext

\* The state a lost save lets a reopening find.
LEMMA LostLatest ==
  ASSUME StoreInv, StoreInv', open, NEW facts \in Facts, Lost(facts)
  PROVE  \/ Latest(slots').facts = facts
         \/ mem.sequence = 0 /\ Latest(slots') = Default
         \/ \E i \in Valid(slots) :
              /\ slots[i].sequence >= mem.sequence
              /\ slots'[i] = slots[i]
              /\ Latest(slots') = slots[i]
<1>1. mem.sequence \in Nat
  BY OpenFacts
<1>2. CASE Valid(slots') = {}
  <2>1. mem.sequence = 0
    BY <1>1, <1>2 DEF Lost
  <2> QED BY <1>2, <2>1 DEF Latest
<1>3. CASE Valid(slots') # {}
  <2>1. PICK i \in Valid(slots') :
          /\ Latest(slots') = slots'[i]
          /\ \A j \in Valid(slots') :
               j # i => slots'[j].sequence < slots'[i].sequence
    <3> DEFINE files == slots'
    <3>1. /\ files \in [0 .. 1 -> State \union {Missing, Torn}]
          /\ \A i \in Valid(files) : files[i].sequence % 2 = i
          /\ Valid(files) # {}
      BY <1>3 DEF StoreInv, TypeOK, SlotsInv, Valid
    <3> HIDE DEF files
    <3>2. \E i \in Valid(files) :
            /\ Latest(files) = files[i]
            /\ \A j \in Valid(files) :
                 j # i => files[j].sequence < files[i].sequence
      BY <3>1, NewestSlot
    <3> QED BY <3>2 DEF files
  <2>2. \A j \in Valid(slots') : slots'[j].sequence \in Nat
    <3>1. TypeOK'
      BY DEF StoreInv
    <3> QED BY <3>1, ConstantsAssumption DEF TypeOK, Valid, State
  <2>3. slots'[i].sequence >= mem.sequence
    BY <1>1, <2>1, <2>2 DEF Lost
  <2>4. CASE slots'[i].facts = facts
    BY <2>1, <2>4
  <2>5. CASE i \in Valid(slots) /\ slots'[i] = slots[i]
    BY <2>1, <2>3, <2>5
  <2> QED BY <2>4, <2>5 DEF Lost
<1> QED BY <1>2, <1>3

LEMMA KeptStep ==
  ASSUME StoreInv, StoreInv', KeptInv, StepCases
  PROVE  KeptInv'
<1>1. CASE Open
  <2>1. /\ ~open /\ mem' = Latest(slots)
        /\ slots' = slots /\ acknowledged' = acknowledged /\ granted' = granted
    BY <1>1 DEF Open
  <2>2. CASE Valid(slots) = {}
    <3>1. mem' = Default /\ Keeps(NoFacts) /\ acknowledged = NoFacts
      BY <2>1, <2>2 DEF KeptInv, Latest, Default
    <3> QED BY <2>1, <2>2, <3>1 DEF KeptInv, Keeps, Valid, Latest, Default
  <2>3. CASE Valid(slots) # {}
    <3>1. PICK i \in Valid(slots) :
            /\ Latest(slots) = slots[i]
            /\ \A j \in Valid(slots) :
                 j # i => slots[j].sequence < slots[i].sequence
      BY <2>3, LatestSlot DEF StoreInv
    <3>2. \A j \in Valid(slots) : slots[j].sequence \in Nat
      BY ValidType DEF StoreInv
    <3>3. mem' = slots[i] /\ mem'.sequence > 0
      BY <2>1, <3>1 DEF StoreInv, SlotsInv
    <3>4. \A j \in Valid(slots) : slots[j].sequence >= mem'.sequence => j = i
      BY <3>1, <3>2, <3>3
    <3>5. Keeps(slots[i].facts) /\ \A scope \in Scopes : granted[scope] <= 1
      BY <3>1 DEF KeptInv
    <3>6. mem'.sequence # 0
      BY <3>2, <3>3
    <3> QED BY <2>1, <2>3, <3>1, <3>3, <3>4, <3>5, <3>6 DEF KeptInv, Keeps
  <2> QED BY <2>2, <2>3
<1>2. CASE Crash
  BY <1>2 DEF Crash, KeptInv, Keeps
<1>3. ASSUME NEW facts \in Facts, open, Operates(facts), Returned(facts)
      PROVE  KeptInv'
  <2>1. acknowledged' = facts
    BY <1>3 DEF Returned
  <2>2. \A scope \in Scopes : granted'[scope] <= 1
    BY <1>3, OperatesCounts
  <2>3. KeepsNext(facts)
    BY <1>3, <2>1, OperatesKeeps
  <2>4. /\ mem' = Latest(slots') /\ mem'.facts = facts
        /\ mem'.sequence # 0
        /\ Valid(slots') # {}
        /\ \A i \in Valid(slots') :
             slots'[i].sequence >= mem'.sequence => slots'[i] = mem'
    BY <1>3, OpenFacts DEF Returned
  <2> QED BY <2>2, <2>3, <2>4, KeptInvNext
<1>4. ASSUME NEW facts \in Facts, open, Operates(facts), Lost(facts)
      PROVE  KeptInv'
  <2>1. /\ acknowledged' = acknowledged
        /\ open' => mem'.facts = facts /\ mem'.sequence = mem.sequence
        /\ mem.sequence > 0 => Valid(slots') # {}
        /\ \A i \in Valid(slots') :
             \/ slots'[i].facts = facts
             \/ i \in Valid(slots) /\ slots'[i] = slots[i]
    BY <1>4 DEF Lost
  <2>2. \A scope \in Scopes : granted'[scope] <= 1
    BY <1>4, OperatesCounts
  <2>3. KeepsNext(facts)
    BY <1>4, <2>1, OperatesKeeps
  <2>4. \A i \in Valid(slots) :
          slots[i].sequence >= mem.sequence => KeepsNext(slots[i].facts)
    BY <1>4, LostKeeps DEF KeptInv
  <2>5. mem.sequence = 0 => KeepsNext(NoFacts) /\ acknowledged' = NoFacts
    BY <1>4, <2>1, LostKeeps DEF KeptInv
  <2>6. KeepsNext(Latest(slots').facts)
    BY <1>4, <2>3, <2>4, <2>5, LostLatest DEF Default
  <2>7. Valid(slots') = {} => acknowledged' = NoFacts
    BY <1>4, <2>1, <2>5, OpenFacts
  <2>8. open' => /\ KeepsNext(mem'.facts)
                 /\ \A i \in Valid(slots') :
                      slots'[i].sequence >= mem'.sequence =>
                        KeepsNext(slots'[i].facts)
    BY <2>1, <2>3, <2>4
  <2>9. open' /\ mem'.sequence = 0 =>
          KeepsNext(NoFacts) /\ acknowledged' = NoFacts
    BY <2>1, <2>5
  <2> QED BY <2>2, <2>6, <2>7, <2>8, <2>9, KeptInvNext
<1> QED BY <1>1, <1>2, <1>3, <1>4 DEF StepCases

LEMMA InitKept == Init => KeptInv
<1> SUFFICES ASSUME Init PROVE KeptInv
  OBVIOUS
<1>1. Valid(slots) = {} /\ Latest(slots) = Default
  BY DEF Init, Valid, Latest
<1>2. Keeps(NoFacts)
  BY DEF Init, Keeps
<1> QED BY <1>1, <1>2 DEF Init, KeptInv, Default

LEMMA KeptStutter ==
  ASSUME KeptInv, UNCHANGED vars
  PROVE  KeptInv'
  BY DEF vars, KeptInv, Keeps, Valid, Latest

\* Every state that a reopening or the open handle could answer from has every
\* acknowledged receipt and binding and counts every granted retry, whatever the
\* caller does after an error (save, open).
THEOREM KeptInvariant == Spec => []KeptInv
<1>1. Init => KeptInv
  BY InitKept
<1>2. StoreInv /\ StoreInv' /\ KeptInv /\ [Next]_vars => KeptInv'
  BY StepOutcome, KeptStep, KeptStutter
<1> QED BY <1>1, <1>2, StoreInvariant, PTL DEF Spec

\* A failure that was observed is granted at most one automatic retry, and the
\* newest slot says so (take_failure_retry).
THEOREM RetriedOnce == Spec => []RetryAtMostOnce
<1>1. KeptInv => RetryAtMostOnce
  BY DEF KeptInv, Keeps, RetryAtMostOnce
<1> QED BY <1>1, KeptInvariant, PTL

\* A reopening finds every acknowledged receipt and binding.
THEOREM NothingAcknowledgedIsLost == Spec => []AcknowledgedKept
<1>1. KeptInv => AcknowledgedKept
  BY DEF KeptInv, Keeps, AcknowledgedKept, Opens
<1> QED BY <1>1, KeptInvariant, PTL

-----------------------------------------------------------------------------
(* A caller that reopens the store after an error.                         *)

LEMMA DurableStep ==
  ASSUME RetryInPlace = FALSE, StoreInv, ReturnIsDurable, StepCases
  PROVE  ReturnIsDurable'
<1>1. CASE Open
  BY <1>1 DEF Open, ReturnIsDurable, Latest, Opens, Valid
<1>2. CASE Crash
  BY <1>2 DEF Crash, ReturnIsDurable
<1>3. ASSUME NEW facts \in Facts, Returned(facts)
      PROVE  ReturnIsDurable'
  BY <1>3 DEF Returned, ReturnIsDurable, Opens, Latest, Valid
<1>4. ASSUME NEW facts \in Facts, Lost(facts)
      PROVE  ReturnIsDurable'
  BY <1>4 DEF Lost, ReturnIsDurable
<1> QED BY <1>1, <1>2, <1>3, <1>4 DEF StepCases

LEMMA DurableInitial == Init => ReturnIsDurable
  BY DEF Init, ReturnIsDurable

LEMMA DurableStutter ==
  ASSUME ReturnIsDurable, UNCHANGED vars
  PROVE  ReturnIsDurable'
  BY DEF vars, ReturnIsDurable, Opens, Valid, Latest

\* Between operations the handle answers from what a reopening would find
\* (save, open).
THEOREM DurableOnReturn ==
  ASSUME RetryInPlace = FALSE
  PROVE  Spec => []ReturnIsDurable
<1>1. Init => ReturnIsDurable
  BY DurableInitial
<1>2. StoreInv /\ ReturnIsDurable /\ [Next]_vars => ReturnIsDurable'
  BY StepOutcome, DurableStep, DurableStutter
<1> QED BY <1>1, <1>2, StoreInvariant, PTL DEF Spec

\* A lost save leaves the newest slot, or makes the new facts the newest.
LEMMA LostKeepsLatest ==
  ASSUME StoreInv, StoreInv', ReturnIsDurable, open,
         NEW facts \in Facts, Lost(facts)
  PROVE  /\ Latest(slots').facts \in {Latest(slots).facts, facts}
         /\ Valid(slots) # {} => Valid(slots') # {}
<1>1. mem = Latest(slots) /\ mem.sequence \in Nat
  BY OpenFacts DEF ReturnIsDurable
<1>2. CASE Valid(slots) = {}
  <2>1. Latest(slots).facts = NoFacts
    BY <1>2 DEF Latest, Default
  <2> QED BY <1>2, <2>1, LostLatest DEF Default
<1>3. CASE Valid(slots) # {}
  <2>1. PICK i \in Valid(slots) :
          /\ Latest(slots) = slots[i]
          /\ \A j \in Valid(slots) :
               j # i => slots[j].sequence < slots[i].sequence
    BY <1>3, LatestSlot DEF StoreInv
  <2>2. \A j \in Valid(slots) : slots[j].sequence \in Nat
    BY ValidType DEF StoreInv
  <2>3. mem.sequence > 0
    BY <1>1, <2>1 DEF StoreInv, SlotsInv
  <2>4. \A j \in Valid(slots) : slots[j].sequence >= mem.sequence => j = i
    BY <1>1, <2>1, <2>2
  <2>5. Latest(slots').facts \in {Latest(slots).facts, facts}
    BY <1>1, <2>1, <2>3, <2>4, LostLatest
  <2> QED BY <2>3, <2>5 DEF Lost
<1> QED BY <1>2, <1>3

LEMMA RecoverableStep ==
  ASSUME StoreInv, StoreInv', ReturnIsDurable, StepCases
  PROVE  Valid(slots) # {} => Valid(slots') # {}
<1>1. CASE Open \/ Crash
  BY <1>1 DEF Open, Crash
<1>2. ASSUME NEW facts \in Facts, Returned(facts)
      PROVE  Valid(slots') # {}
  BY <1>2 DEF Returned
<1>3. ASSUME NEW facts \in Facts, open, Lost(facts)
      PROVE  Valid(slots) # {} => Valid(slots') # {}
  BY <1>3, LostKeepsLatest
<1> QED BY <1>1, <1>2, <1>3 DEF StepCases

\* Once one save succeeded, no step leaves both slots unreadable (save).
THEOREM AlwaysRecoverable ==
  ASSUME RetryInPlace = FALSE
  PROVE  Spec => StaysRecoverable
<1>1. StoreInv /\ StoreInv' /\ ReturnIsDurable /\ [Next]_vars =>
        [Valid(slots) # {} => Valid(slots') # {}]_slots
  BY StepOutcome, RecoverableStep DEF vars
<1>2. Spec => []ReturnIsDurable
  BY DurableOnReturn
<1> QED BY <1>1, <1>2, StoreInvariant, PTL DEF Spec, StaysRecoverable

-----------------------------------------------------------------------------
(* The store implements RetainedFacts.                                     *)

LEMMA PromiseInit == Init => Promise!Init
<1> SUFFICES ASSUME Init PROVE Promise!Init
  OBVIOUS
<1>1. Valid(slots) = {}
  BY DEF Init, Valid
<1> QED BY <1>1 DEF Promise!Init, Latest, Default, Promise!NoFacts, NoFacts

LEMMA PromiseStep ==
  ASSUME StoreInv, StoreInv', ReturnIsDurable, StepCases
  PROVE  [Promise!Next]_(Latest(slots).facts)
<1>1. CASE Open \/ Crash
  <2>1. slots' = slots
    BY <1>1 DEF Open, Crash
  <2>2. UNCHANGED (Latest(slots).facts)
    BY <2>1 DEF Latest, Valid
  <2> QED BY <2>2
<1>2. ASSUME NEW facts \in Facts, open, Operates(facts),
             Latest(slots').facts = facts
      PROVE  Promise!Next
  <2>1. mem.facts = Latest(slots).facts
    BY <1>2 DEF ReturnIsDurable
  <2>2. Latest(slots)'.facts = facts
    BY <1>2 DEF Latest, Valid
  <2> QED BY <1>2, <2>1, <2>2
          DEF Operates, Promise!Next, Promise!Negotiated, Negotiated,
              Promise!WithReceipt, WithReceipt, Promise!Bound, Bound,
              Promise!Failed, Failed, Promise!Observed, Observed,
              Promise!ConditionChanged, ConditionChanged,
              Promise!MayRetry, MayRetry, Promise!Retried, Retried
<1>3. ASSUME NEW facts \in Facts, open, Operates(facts), Returned(facts)
      PROVE  Promise!Next
  BY <1>2, <1>3 DEF Returned
<1>4. ASSUME NEW facts \in Facts, open, Operates(facts), Lost(facts)
      PROVE  Promise!Next \/ Latest(slots').facts = Latest(slots).facts
  BY <1>2, <1>4, LostKeepsLatest
<1> QED BY <1>1, <1>3, <1>4 DEF StepCases, Latest, Valid

\* Seen through the newest slot, every operation takes effect once and whole or
\* not at all, receipts are only added and bindings never change.
THEOREM Implements ==
  ASSUME RetryInPlace = FALSE
  PROVE  Spec => ImplementsRetainedFacts
<1>1. Init => Promise!Init
  BY PromiseInit
<1>2. StoreInv /\ StoreInv' /\ ReturnIsDurable /\ [Next]_vars =>
        [Promise!Next]_(Latest(slots).facts)
  <2>1. ASSUME UNCHANGED vars
        PROVE  UNCHANGED (Latest(slots).facts)
    BY <2>1 DEF vars, Latest, Valid
  <2> QED BY <2>1, StepOutcome, PromiseStep
<1>3. Spec => []ReturnIsDurable
  BY DurableOnReturn
<1> QED BY <1>1, <1>2, <1>3, StoreInvariant, PTL
        DEF Spec, ImplementsRetainedFacts, Promise!Spec

=============================================================================
