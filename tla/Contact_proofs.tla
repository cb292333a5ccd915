--------------------------- MODULE Contact_proofs ---------------------------
(***************************************************************************)
(* Safety of a series of contacts, for every representation length, every  *)
(* record size, every byte budget and record limit, any number of replays, *)
(* losses, corruptions, restarts and store failures.                       *)
(*                                                                         *)
(* Only SenderStaysLegal assumes a receiver that is never given another    *)
(* directory: the run contact_restart shows that it fails otherwise.       *)
(***************************************************************************)
EXTENDS Contact, TLAPS

-----------------------------------------------------------------------------
(* The inductive invariant.                                                *)

\* From the offer on the descriptor is accepted; before it, it is not.
Before == {"summary", "offer"}
After == {"verify_before", "request", "data", "replay", "replay_corrupt",
          "verify_after", "receipt"}
Sending == {"data", "replay", "replay_corrupt"}

StageInv ==
    /\ stage \in Before => ~accepted
    /\ stage \in After => accepted
    /\ stage \in Sending => ~committed
    /\ stage = "data" => payload \in 0 .. length - prefix
    /\ stage \in Sending => DataSize <= EffectiveLimit

\* Where the ledger stands at each stage; a contact that ends in an error
\* reports nothing.
LedgerInv ==
    LET gained == ledger.delivered - ledger.duplicate
        start == IF ledger.failures = 0 THEN ledger.before ELSE 0 IN
    /\ stage \in {"capabilities", "capabilities_reply", "summary", "offer",
                  "verify_before"} =>
          gained = 0 /\ ledger.failures = 0 /\ prefix = ledger.before
    /\ stage \in {"request", "data"} =>
          gained = 0 /\ ledger.failures < 2 /\ prefix = start
    /\ stage \in {"replay", "replay_corrupt", "verify_after"} =>
          ledger.failures < 2 /\ prefix = start + gained
    /\ stage = "receipt" \/ (stage = "idle" /\ outcome = "report") => Balanced

\* What a directory holds that the receiver does not have open.
Sound(store) ==
    /\ store.receipted => store.committed
    /\ store.committed => store.accepted /\ store.intact /\ store.prefix = length
    /\ store.useful \in {0, length} /\ (store.useful > 0 => store.committed)

KeptInv == \A d \in Directories : Sound(kept[d])

ContactInv ==
    /\ TypeOK
    /\ StageInv
    /\ ReceiptAfterCommit
    /\ UsefulCountedOnce
    /\ RequestLeavesRoom
    /\ ScopeTracksCarrier
    /\ LedgerInv
    /\ KeptInv

-----------------------------------------------------------------------------
(* Facts about the helpers.                                                *)

LEMMA SizesArePositive ==
  /\ CapabilitiesSize \in Nat /\ CapabilitiesSize > 0
  /\ SummarySize \in Nat /\ SummarySize > 0
  /\ OfferSize \in Nat /\ OfferSize > 0
  /\ RequestSize \in Nat /\ RequestSize > 0
  /\ ReceiptSize \in Nat /\ ReceiptSize > 0
  /\ DataOverhead \in Nat /\ DataOverhead > 0
  BY ConstantsAssumption

LEMMA LeastOfTwo ==
  ASSUME NEW a \in Int, NEW b \in Int
  PROVE  Least({a, b}) = IF a <= b THEN a ELSE b
<1> DEFINE least == IF a <= b THEN a ELSE b
<1>1. least \in {a, b} /\ \A y \in {a, b} : least <= y
  OBVIOUS
<1>2. \A x \in {a, b} : (\A y \in {a, b} : x <= y) => x = least
  OBVIOUS
<1> QED BY <1>1, <1>2 DEF Least

ScopeRecord == [max : [Scopes -> Nat], used : [Scopes -> Nat]]

LEMMA ChargedType ==
  ASSUME NEW s \in ScopeRecord, NEW direction \in Scopes, NEW size \in Nat
  PROVE  /\ Charged(s, direction, size) \in ScopeRecord
         /\ Charged(s, direction, size).max = s.max
         /\ \A d \in Scopes : Charged(s, direction, size).used[d] =
               IF d \in {"total", direction} THEN s.used[d] + size
               ELSE s.used[d]
<1> DEFINE u == [d \in Scopes |->
              IF d \in {"total", direction} THEN s.used[d] + size ELSE s.used[d]]
<1>1. DOMAIN s.used = Scopes /\ u \in [Scopes -> Nat]
  BY DEF ScopeRecord
<1>2. Charged(s, direction, size) = [s EXCEPT !.used = u]
  BY <1>1 DEF Charged
<1> HIDE DEF u
<1>3. /\ [s EXCEPT !.used = u] \in ScopeRecord
      /\ [s EXCEPT !.used = u].max = s.max
      /\ [s EXCEPT !.used = u].used = u
  BY <1>1 DEF ScopeRecord
<1> QED BY <1>2, <1>3 DEF u

LEMMA NewScopeType ==
  ASSUME remaining \in Nat
  PROVE  /\ NewScope \in ScopeRecord
         /\ \A d \in Scopes :
              NewScope.max[d] = remaining /\ NewScope.used[d] = 0
  BY DEF NewScope, ScopeOf, ScopeRecord

\* The ceiling in force is positive and never above the carrier's.
LEMMA LimitType ==
  ASSUME TypeOK
  PROVE  EffectiveLimit \in Nat
  BY LeastOfTwo, ConstantsAssumption DEF TypeOK, CarrierTypes, EndpointTypes,
     EffectiveLimit

\* What a request may ask for leaves room for the request and the DATA record.
LEMMA PayloadFits ==
  ASSUME TypeOK
  PROVE  /\ PayloadLimit \in 0 .. length - prefix
         /\ PayloadLimit > 0 =>
              /\ DataOverhead + PayloadLimit <= EffectiveLimit
              /\ RequestSize + DataOverhead + PayloadLimit <= remaining
<1> DEFINE record == EffectiveLimit - DataOverhead
           budget == remaining - (RequestSize + DataOverhead)
           room == Least({record, budget})
<1>1. /\ record \in Int /\ budget \in Int /\ remaining \in Nat
      /\ length \in Nat /\ prefix \in 0 .. length
  BY SizesArePositive, LimitType, ConstantsAssumption
  DEF TypeOK, CarrierTypes, RequestTypes, EndpointTypes, StoreTypes
<1>2. room = IF record <= budget THEN record ELSE budget
  BY <1>1, LeastOfTwo
<1>3. PayloadLimit = IF room < 0 THEN 0 ELSE Least({length - prefix, room})
  BY DEF PayloadLimit
<1>4. room \in Int /\ room <= record /\ room <= budget
  BY <1>1, <1>2
<1>5. Least({length - prefix, room}) =
        IF length - prefix <= room THEN length - prefix ELSE room
  <2> HIDE DEF room
  <2> QED BY <1>1, <1>4, LeastOfTwo
<1> HIDE DEF room
<1>6. PayloadLimit \in 0 .. length - prefix /\ (PayloadLimit > 0 => PayloadLimit <= room)
  BY <1>1, <1>3, <1>4, <1>5
<1> QED BY <1>1, <1>4, <1>6, SizesArePositive, LimitType

\* What submitting a record of this size, or nothing, does to the carrier.
CarrierStep(size) ==
    /\ limit' = limit
    /\ connected' \in {connected, FALSE}
    /\ \/ remaining' = remaining
       \/ Admitted(size) /\ remaining' = remaining - size

LEMMA CarrierStepType ==
  ASSUME TypeOK, NEW size \in Nat, CarrierStep(size)
  PROVE  CarrierTypes'
<1>1. remaining \in Nat /\ connected \in BOOLEAN
      /\ limit \in Nat
  BY DEF TypeOK, CarrierTypes
<1>2. (remaining \in Nat)'
  BY <1>1 DEF CarrierStep, Admitted
<1>3. (connected \in BOOLEAN)'
  BY <1>1 DEF CarrierStep
<1>4. (limit \in Nat)'
  BY <1>1 DEF CarrierStep
<1> QED BY <1>2, <1>3, <1>4 DEF CarrierTypes

LEMMA DataSizeType ==
  ASSUME TypeOK
  PROVE  DataSize \in Nat /\ DataSize > 0
  BY SizesArePositive, ConstantsAssumption
  DEF TypeOK, RequestTypes, EndpointTypes, DataSize

\* A DATA record charged to its scope.
LEMMA DataChargedType ==
  ASSUME TypeOK
  PROVE  /\ DataCharged \in ScopeRecord
         /\ DataCharged.max = scope.max
         /\ DataCharged.used["total"] = scope.used["total"] + DataSize
<1>1. scope \in ScopeRecord /\ "sender_to_receiver" \in Scopes /\ "total" \in Scopes
  BY DEF TypeOK, RequestTypes, ScopeRecord, Scopes
<1> QED BY <1>1, DataSizeType, ChargedType DEF DataCharged

\* A request charged to the scope it opens.
LEMMA RequestChargedType ==
  ASSUME NewScope \in ScopeRecord
  PROVE  LET charged == Charged(NewScope, "receiver_to_sender", RequestSize)
         IN  /\ charged \in ScopeRecord
             /\ charged.max = NewScope.max
             /\ charged.used["total"] = NewScope.used["total"] + RequestSize
             /\ charged.used["sender_to_receiver"] = NewScope.used["sender_to_receiver"]
<1>1. /\ "receiver_to_sender" \in Scopes /\ "sender_to_receiver" \in Scopes
      /\ "total" \in Scopes
  BY DEF Scopes
<1>2. RequestSize \in Nat
  BY ConstantsAssumption
<1> QED BY <1>1, <1>2, ChargedType

-----------------------------------------------------------------------------
(* Every step preserves the invariant.                                     *)

\* A step of a contact leaves the directories alone.
LEMMA RootsStay ==
  ASSUME ContactInv, UNCHANGED length, UNCHANGED rootVars
  PROVE  RootTypes' /\ KeptInv'
  BY DEF ContactInv, TypeOK, RootTypes, KeptInv, Sound, Stores, rootVars

LEMMA ScopeOfType ==
  ASSUME NEW max \in Nat
  PROVE  ScopeOf(max) \in ScopeRecord
  BY DEF ScopeOf, ScopeRecord

LEMMA FreshIsSound ==
  ASSUME length \in Nat
  PROVE  Fresh \in Stores /\ Sound(Fresh)
  BY DEF Fresh, Stores, Sound

\* What any directory holds is of its type and sound.
LEMMA HeldIsSound ==
  ASSUME ContactInv, NEW d \in Directories
  PROVE  Held(d) \in Stores /\ Sound(Held(d))
<1>1. CASE d # root
  BY <1>1 DEF ContactInv, TypeOK, RootTypes, KeptInv, Held
<1>2. CASE d = root
  BY <1>2 DEF ContactInv, TypeOK, EndpointTypes, StoreTypes, CounterTypes,
     ReceiptAfterCommit, UsefulCountedOnce, Held, Stores, Sound
<1> QED BY <1>1, <1>2

LEMMA StartContactInv ==
  ASSUME ContactInv, NEW budget \in Budgets, NEW maximum \in RecordLimits,
         NEW up \in Connections, NEW again \in 0 .. MaxReplays,
         NEW anew \in Anew, NEW where \in Directories,
         StartContact(budget, maximum, up, again, anew, where)
  PROVE  ContactInv'
<1> USE ConstantsAssumption
<1>1. Held(where) \in Stores /\ Sound(Held(where))
  BY HeldIsSound
<1>2. /\ stage' = Opening(profile', accepted') /\ outcome' = "none"
      /\ length' = length /\ prefix' = Held(where).prefix
      /\ accepted' = Held(where).accepted /\ profile' = Held(where).profile
      /\ intact' = Held(where).intact /\ committed' = Held(where).committed
      /\ receipted' = Held(where).receipted /\ useful' = Held(where).useful
      /\ ledger' = [before |-> prefix', delivered |-> 0, duplicate |-> 0,
                    failures |-> 0]
  BY DEF StartContact
<1>3. /\ stage' \in {"capabilities", "verify_before", "summary"}
      /\ (stage' = "summary" => ~accepted')
      /\ (stage' = "verify_before" => accepted')
  BY <1>1, <1>2 DEF Opening, Stores
<1>4. ProgressTypes'
  BY <1>2, <1>3 DEF ProgressTypes
<1>5. CarrierTypes'
  BY DEF CarrierTypes, StartContact
<1>6. length \in Nat /\ scope' = ScopeOf(0) /\ payload' = 0 /\ replays' = again
  BY DEF ContactInv, TypeOK, EndpointTypes, StartContact
<1>7. RequestTypes'
  BY <1>2, <1>6, ScopeOfType DEF RequestTypes, ScopeRecord
<1>8. EndpointTypes'
  <2>1. sender' \in {sender, "Available"}
    BY DEF StartContact
  <2> QED BY <1>1, <1>2, <2>1 DEF ContactInv, TypeOK, EndpointTypes, Stores
<1>9. StoreTypes'
  BY <1>1, <1>2 DEF StoreTypes, Stores
<1>10. CounterTypes'
  <2>1. (disturbances \in 0 .. MaxDisturbances)'
    BY DEF ContactInv, TypeOK, CounterTypes, StartContact, Spend
  <2>2. prefix' \in 0 .. length' /\ useful' \in Nat
    BY <1>1, <1>2 DEF Stores
  <2> QED BY <1>2, <2>1, <2>2 DEF CounterTypes
<1>11. RootTypes' /\ KeptInv'
  <2>1. root \in Directories /\ kept \in [Directories -> Stores]
    BY DEF ContactInv, TypeOK, RootTypes
  <2>2. Held(root) \in Stores /\ Sound(Held(root)) /\ Fresh \in Stores /\ Sound(Fresh)
    BY <1>6, <2>1, HeldIsSound, FreshIsSound
  <2>3. \A d \in Directories : kept'[d] \in {kept[d], Held(root), Fresh}
    BY <2>1 DEF StartContact
  <2>4. kept' \in [Directories -> Stores]
    BY <2>1, <2>2 DEF StartContact
  <2>5. Stores' = Stores /\ \A store : Sound(store)' <=> Sound(store)
    BY <1>2 DEF Stores, Sound
  <2>6. root' = where /\ opened' \subseteq FullRestarts
    BY DEF StartContact, ContactInv, TypeOK, RootTypes
  <2>7. \A d \in Directories : Sound(kept'[d])
    BY <2>2, <2>3 DEF ContactInv, KeptInv
  <2>8. KeptInv'
    BY <1>2, <2>7 DEF KeptInv, Sound
  <2> QED BY <2>4, <2>5, <2>6, <2>8 DEF RootTypes
<1>12. TypeOK'
  BY <1>4, <1>5, <1>7, <1>8, <1>9, <1>10, <1>11 DEF TypeOK
<1>13. StageInv' /\ RequestLeavesRoom' /\ ScopeTracksCarrier'
  BY <1>3 DEF StageInv, Before, After, Sending, RequestLeavesRoom,
     ScopeTracksCarrier
<1>14. ReceiptAfterCommit' /\ UsefulCountedOnce'
  BY <1>1, <1>2 DEF ReceiptAfterCommit, UsefulCountedOnce, Sound
<1>15. LedgerInv'
  BY <1>2, <1>3 DEF LedgerInv
<1> QED BY <1>11, <1>12, <1>13, <1>14, <1>15 DEF ContactInv

LEMMA ExpireInv ==
  ASSUME ContactInv, NEW d \in Directories, Expire(d)
  PROVE  ContactInv'
<1>1. UNCHANGED <<length, stage, outcome, carrierVars, requestVars, sender,
                  storeVars, counters, root, opened>>
  BY DEF Expire
<1>2. profile' \in {profile, None}
  BY DEF Expire
<1>3. ProgressTypes' /\ CarrierTypes' /\ RequestTypes' /\ StoreTypes'
  BY <1>1 DEF ContactInv, TypeOK, ProgressTypes, CarrierTypes, RequestTypes,
     StoreTypes, carrierVars, requestVars, storeVars
<1>4. EndpointTypes'
  BY <1>1, <1>2 DEF ContactInv, TypeOK, EndpointTypes
<1>5. CounterTypes'
  BY <1>1 DEF ContactInv, TypeOK, CounterTypes, Expire, Spend, counters
<1>6. RootTypes' /\ KeptInv'
  <2> DEFINE expired == [kept[d] EXCEPT !.profile = None]
  <2>1. kept \in [Directories -> Stores] /\ Sound(kept[d])
    BY DEF ContactInv, TypeOK, RootTypes, KeptInv
  <2>2. expired \in Stores /\ Sound(expired)
    BY <2>1 DEF Stores, Sound
  <2>3. kept' \in {kept, [kept EXCEPT ![d] = expired]}
    BY DEF Expire
  <2> HIDE DEF expired
  <2>4. kept' \in [Directories -> Stores] /\ \A e \in Directories : Sound(kept'[e])
    BY <2>1, <2>2, <2>3 DEF ContactInv, KeptInv
  <2> QED BY <1>1, <2>4 DEF ContactInv, TypeOK, RootTypes, KeptInv, Sound, Stores
<1>7. TypeOK'
  BY <1>3, <1>4, <1>5, <1>6 DEF TypeOK
<1>8. StageInv' /\ RequestLeavesRoom' /\ ScopeTracksCarrier'
  <2>1. stage' = "idle"
    BY <1>1 DEF Expire
  <2> QED BY <2>1 DEF StageInv, Before, After, Sending, RequestLeavesRoom,
          ScopeTracksCarrier
<1>9. ReceiptAfterCommit' /\ UsefulCountedOnce'
  BY <1>1 DEF ContactInv, ReceiptAfterCommit, UsefulCountedOnce, storeVars,
     counters
<1>10. LedgerInv'
  BY <1>1 DEF ContactInv, Balanced, LedgerInv, storeVars, counters
<1> QED BY <1>6, <1>7, <1>8, <1>9, <1>10 DEF ContactInv

LEMMA SendCapabilitiesInv ==
  ASSUME ContactInv, SendCapabilities,
         UNCHANGED length, UNCHANGED rootVars
  PROVE  ContactInv'
<1> USE SizesArePositive, ConstantsAssumption
<1>1. ProgressTypes'
  BY DEF ContactInv, TypeOK, ProgressTypes, SendCapabilities, Submit, Pause,
     Broken, Leave, Go, End
<1>2. CarrierStep(CapabilitiesSize)
  BY DEF ContactInv, CarrierStep, SendCapabilities, Submit, carrierVars
<1>3. CarrierTypes'
  BY <1>2, CarrierStepType, DataSizeType DEF ContactInv
<1>4. RequestTypes'
  BY DEF ContactInv, TypeOK, RequestTypes, SendCapabilities, requestVars
<1>5. EndpointTypes'
  BY DEF ContactInv, TypeOK, EndpointTypes, SendCapabilities, Submit, Pause,
     Broken, Leave
<1>6. StoreTypes'
  BY DEF ContactInv, TypeOK, StoreTypes, SendCapabilities, Submit, Pause,
     Broken, Leave, storeVars
<1>7. CounterTypes'
  BY DEF ContactInv, TypeOK, CounterTypes, SendCapabilities, Submit, Pause,
     Broken, Leave, Spend, counters
<1>8. TypeOK'
  BY <1>1, <1>3, <1>4, <1>5, <1>6, <1>7, RootsStay
  DEF TypeOK
<1>9. StageInv'
  BY DEF StageInv, Before, After, Sending, SendCapabilities, Submit, Pause,
     Broken, Leave, Go, End
<1>10. ReceiptAfterCommit'
  BY DEF ContactInv, ReceiptAfterCommit, SendCapabilities, Submit, Pause,
     Broken, Leave, storeVars
<1>11. UsefulCountedOnce'
  BY DEF ContactInv, UsefulCountedOnce, SendCapabilities, Submit, Pause,
     Broken, Leave, storeVars, counters
<1>12. RequestLeavesRoom'
  BY DEF RequestLeavesRoom, SendCapabilities, Submit, Pause, Broken, Leave,
     Go, End
<1>13. ScopeTracksCarrier'
  BY DEF ScopeTracksCarrier, SendCapabilities, Submit, Pause, Broken, Leave,
     Go, End
<1>14. LedgerInv'
  BY DEF ContactInv, TypeOK, CounterTypes, Balanced, LedgerInv,
     SendCapabilities, Submit, Pause, Broken, Leave, storeVars, counters
<1> QED BY <1>8, <1>9, <1>10, <1>11, <1>12, <1>13, <1>14,
        RootsStay DEF ContactInv

LEMMA ReplyCapabilitiesInv ==
  ASSUME ContactInv, ReplyCapabilities,
         UNCHANGED length, UNCHANGED rootVars
  PROVE  ContactInv'
<1> USE SizesArePositive, ConstantsAssumption
<1>1. ProgressTypes'
  BY DEF ContactInv, TypeOK, ProgressTypes, ReplyCapabilities, Submit, Pause,
     Broken, Leave, Stumble, Go, End, Opening
<1>2. CarrierStep(CapabilitiesSize)
  BY DEF ContactInv, CarrierStep, ReplyCapabilities, Submit, Stumble, carrierVars
<1>3. CarrierTypes'
  BY <1>2, CarrierStepType, DataSizeType DEF ContactInv
<1>4. RequestTypes'
  BY DEF ContactInv, TypeOK, RequestTypes, ReplyCapabilities, requestVars
<1>5. EndpointTypes'
  BY DEF ContactInv, TypeOK, CarrierTypes, EndpointTypes, ReplyCapabilities,
     Submit, Pause, Broken, Leave
<1>6. StoreTypes'
  BY DEF ContactInv, TypeOK, StoreTypes, ReplyCapabilities, Submit, Pause,
     Broken, Leave, storeVars
<1>7. CounterTypes'
  BY DEF ContactInv, TypeOK, CounterTypes, ReplyCapabilities, Submit, Pause,
     Broken, Leave, Stumble, Spend, counters
<1>8. TypeOK'
  BY <1>1, <1>3, <1>4, <1>5, <1>6, <1>7, RootsStay
  DEF TypeOK
<1>9. StageInv'
  BY DEF ContactInv, StageInv, Before, After, Sending, ReplyCapabilities,
     Submit, Pause, Broken, Leave, Stumble, Go, End, Opening, storeVars
<1>10. ReceiptAfterCommit'
  BY DEF ContactInv, ReceiptAfterCommit, ReplyCapabilities, Submit, Pause,
     Broken, Leave, storeVars
<1>11. UsefulCountedOnce'
  BY DEF ContactInv, UsefulCountedOnce, ReplyCapabilities, Submit, Pause,
     Broken, Leave, storeVars, counters
<1>12. RequestLeavesRoom'
  BY DEF ContactInv, RequestLeavesRoom, ReplyCapabilities, Submit, Pause,
     Broken, Leave, Stumble, Go, End, Opening
<1>13. ScopeTracksCarrier'
  BY DEF ContactInv, ScopeTracksCarrier, ReplyCapabilities, Submit, Pause,
     Broken, Leave, Stumble, Go, End, Opening
<1>14. LedgerInv'
  BY DEF ContactInv, TypeOK, CounterTypes, Balanced, LedgerInv,
     ReplyCapabilities, Submit, Pause, Broken, Leave, storeVars, counters
<1> QED BY <1>8, <1>9, <1>10, <1>11, <1>12, <1>13, <1>14,
        RootsStay DEF ContactInv

LEMMA SendSummaryInv ==
  ASSUME ContactInv, SendSummary,
         UNCHANGED length, UNCHANGED rootVars
  PROVE  ContactInv'
<1> USE SizesArePositive, ConstantsAssumption
<1>1. ProgressTypes'
  BY DEF ContactInv, TypeOK, ProgressTypes, SendSummary, Submit, Pause,
     Broken, Leave, Go, End
<1>2. CarrierStep(SummarySize)
  BY DEF ContactInv, CarrierStep, SendSummary, Submit, carrierVars
<1>3. CarrierTypes'
  BY <1>2, CarrierStepType, DataSizeType DEF ContactInv
<1>4. RequestTypes'
  BY DEF ContactInv, TypeOK, RequestTypes, SendSummary, Submit, Pause, Broken,
     Leave, requestVars
<1>5. EndpointTypes'
  BY DEF ContactInv, TypeOK, EndpointTypes, SendSummary, Submit, Pause,
     Broken, Leave
<1>6. StoreTypes'
  BY DEF ContactInv, TypeOK, StoreTypes, SendSummary, Submit, Pause, Broken,
     Leave, storeVars
<1>7. CounterTypes'
  BY DEF ContactInv, TypeOK, CounterTypes, SendSummary, Submit, Pause, Broken,
     Leave, Spend, counters
<1>8. TypeOK'
  BY <1>1, <1>3, <1>4, <1>5, <1>6, <1>7, RootsStay
  DEF TypeOK
<1>9. StageInv'
  BY DEF ContactInv, StageInv, Before, After, Sending, SendSummary, Submit,
     Pause, Broken, Leave, Go, End, storeVars
<1>10. ReceiptAfterCommit'
  BY DEF ContactInv, ReceiptAfterCommit, SendSummary, Submit, Pause, Broken,
     Leave, storeVars
<1>11. UsefulCountedOnce'
  BY DEF ContactInv, UsefulCountedOnce, SendSummary, Submit, Pause, Broken,
     Leave, storeVars, counters
<1>12. RequestLeavesRoom'
  BY DEF RequestLeavesRoom, SendSummary, Submit, Pause, Broken, Leave, Go, End
<1>13. ScopeTracksCarrier'
  BY DEF ScopeTracksCarrier, SendSummary, Submit, Pause, Broken, Leave, Go, End
<1>14. LedgerInv'
  BY DEF ContactInv, TypeOK, CounterTypes, Balanced, LedgerInv, SendSummary,
     Submit, Pause, Broken, Leave, storeVars, counters
<1> QED BY <1>8, <1>9, <1>10, <1>11, <1>12, <1>13, <1>14,
        RootsStay DEF ContactInv

LEMMA SendOfferInv ==
  ASSUME ContactInv, SendOffer,
         UNCHANGED length, UNCHANGED rootVars
  PROVE  ContactInv'
<1> USE SizesArePositive, ConstantsAssumption
<1>1. ProgressTypes'
  BY DEF ContactInv, TypeOK, ProgressTypes, SendOffer, Submit, Pause, Broken,
     Leave, Stumble, Go, End
<1>2. CarrierStep(OfferSize)
  BY DEF ContactInv, CarrierStep, SendOffer, Submit,
     Stumble, carrierVars
<1>3. CarrierTypes'
  BY <1>2, CarrierStepType, DataSizeType DEF ContactInv
<1>4. RequestTypes'
  BY DEF ContactInv, TypeOK, RequestTypes, SendOffer, Submit, Pause, Broken,
     Leave, requestVars
<1>5. EndpointTypes'
  BY DEF ContactInv, TypeOK, EndpointTypes, SendOffer, Submit, Pause, Broken,
     Leave
<1>6. StoreTypes'
  BY DEF ContactInv, TypeOK, StoreTypes, SendOffer, Submit, Pause, Broken,
     Leave, storeVars
<1>7. CounterTypes'
  BY DEF ContactInv, TypeOK, CounterTypes, SendOffer, Submit, Pause, Broken,
     Leave, Stumble, Spend, counters
<1>8. TypeOK'
  BY <1>1, <1>3, <1>4, <1>5, <1>6, <1>7, RootsStay
  DEF TypeOK
<1>9. StageInv'
  BY DEF ContactInv, StageInv, Before, After, Sending, SendOffer, Submit,
     Pause, Broken, Leave, Stumble, Go, End
<1>10. ReceiptAfterCommit'
  BY DEF ContactInv, StageInv, Before, ReceiptAfterCommit, SendOffer, Submit,
     Pause, Broken, Leave, storeVars
<1>11. UsefulCountedOnce'
  BY DEF ContactInv, UsefulCountedOnce, SendOffer, Submit, Pause, Broken,
     Leave, storeVars, counters
<1>12. RequestLeavesRoom'
  BY DEF ContactInv, RequestLeavesRoom, SendOffer, Submit, Pause, Broken,
     Leave, Stumble, Go, End
<1>13. ScopeTracksCarrier'
  BY DEF ContactInv, ScopeTracksCarrier, SendOffer, Submit, Pause, Broken,
     Leave, Stumble, Go, End
<1>14. LedgerInv'
  BY DEF ContactInv, TypeOK, CounterTypes, Balanced, LedgerInv, SendOffer,
     Submit, Pause, Broken, Leave, storeVars, counters
<1> QED BY <1>8, <1>9, <1>10, <1>11, <1>12, <1>13, <1>14,
        RootsStay DEF ContactInv

LEMMA VerifyAndCommitInv ==
  ASSUME ContactInv, VerifyAndCommit,
         UNCHANGED length, UNCHANGED rootVars
  PROVE  ContactInv'
<1> USE SizesArePositive, ConstantsAssumption
<1>1. ProgressTypes'
  BY DEF ContactInv, TypeOK, ProgressTypes, VerifyAndCommit, Go, End
<1>2. CarrierTypes'
  BY DEF ContactInv, TypeOK, CarrierTypes, VerifyAndCommit, carrierVars
<1>3. RequestTypes'
  BY DEF ContactInv, TypeOK, RequestTypes, VerifyAndCommit, requestVars
<1>4. EndpointTypes'
  BY DEF ContactInv, TypeOK, EndpointTypes, VerifyAndCommit
<1>5. StoreTypes'
  <2>1. (accepted \in BOOLEAN)'
    BY DEF ContactInv, TypeOK, StoreTypes, VerifyAndCommit
  <2>2. (prefix \in 0 .. length)'
    BY DEF ContactInv, TypeOK, EndpointTypes, StoreTypes, VerifyAndCommit
  <2>3. (intact \in BOOLEAN)'
    BY DEF ContactInv, TypeOK, StoreTypes, VerifyAndCommit
  <2>4. (committed \in BOOLEAN)'
    BY DEF ContactInv, TypeOK, StoreTypes, VerifyAndCommit
  <2>5. (receipted \in BOOLEAN)'
    BY DEF ContactInv, TypeOK, StoreTypes, VerifyAndCommit
  <2> QED BY <2>1, <2>2, <2>3, <2>4, <2>5 DEF StoreTypes
<1>6. CounterTypes'
  BY DEF ContactInv, TypeOK, CounterTypes, LedgerInv, VerifyAndCommit,
     Verifies, Spend, counters
<1>7. TypeOK'
  BY <1>1, <1>2, <1>3, <1>4, <1>5, <1>6, RootsStay
  DEF TypeOK
<1>8. StageInv'
  BY DEF ContactInv, StageInv, Before, After, Sending, VerifyAndCommit, Go,
     End
<1>9. ReceiptAfterCommit'
  BY DEF ContactInv, StageInv, After, ReceiptAfterCommit, VerifyAndCommit,
     Verifies
<1>10. UsefulCountedOnce'
  BY DEF ContactInv, TypeOK, StoreTypes, UsefulCountedOnce, VerifyAndCommit,
     Verifies, counters
<1>11. RequestLeavesRoom'
  BY DEF ContactInv, RequestLeavesRoom, VerifyAndCommit, Go, End
<1>12. ScopeTracksCarrier'
  BY DEF ContactInv, ScopeTracksCarrier, VerifyAndCommit, Go, End
<1>13. LedgerInv'
  BY DEF ContactInv, TypeOK, RequestTypes, CounterTypes, Balanced, LedgerInv,
     VerifyAndCommit, Go, End, counters
<1> QED BY <1>7, <1>8, <1>9, <1>10, <1>11, <1>12, <1>13,
        RootsStay DEF ContactInv

LEMMA SendRequestInv ==
  ASSUME ContactInv, SendRequest,
         UNCHANGED length, UNCHANGED rootVars
  PROVE  ContactInv'
<1> USE SizesArePositive, ConstantsAssumption
<1>1. ProgressTypes'
  BY DEF ContactInv, TypeOK, ProgressTypes, SendRequest, Submit, Pause,
     Broken, Leave, Go, End
<1>2. CarrierStep(RequestSize)
  BY DEF ContactInv, CarrierStep, SendRequest, Submit, carrierVars
<1>3. CarrierTypes'
  BY <1>2, CarrierStepType, DataSizeType DEF ContactInv
<1>4. NewScope \in ScopeRecord
     /\ \A d \in Scopes : NewScope.max[d] = remaining /\ NewScope.used[d] = 0
  BY NewScopeType DEF ContactInv, TypeOK, CarrierTypes
<1> DEFINE charged == Charged(NewScope, "receiver_to_sender", RequestSize)
<1>5. /\ charged \in ScopeRecord
      /\ \A d \in Scopes : charged.max[d] = remaining
      /\ charged.used["total"] = RequestSize
      /\ charged.used["sender_to_receiver"] = 0
  BY <1>4, RequestChargedType DEF Scopes
<1>6. /\ PayloadLimit \in 0 .. length - prefix
      /\ PayloadLimit > 0 =>
           /\ DataOverhead + PayloadLimit <= EffectiveLimit
           /\ RequestSize + DataOverhead + PayloadLimit <= remaining
  BY PayloadFits DEF ContactInv
<1> HIDE DEF charged
<1>7. \/ stage' # "data" /\ UNCHANGED requestVars
      \/ stage' = "idle" /\ scope' = charged /\ payload' = PayloadLimit /\ replays' = replays
      \/ /\ stage' = "data" /\ scope' = charged /\ payload' = PayloadLimit
         /\ replays' = replays /\ remaining' = remaining - RequestSize
         /\ UNCHANGED <<limit, profile, storeVars>> /\ PayloadLimit > 0 /\ ~committed
  BY DEF ContactInv, SendRequest, Submit, Pause, Broken, Leave, Go, End, charged
<1>8. UNCHANGED <<storeVars, counters>> /\ stage' \in {"idle", "data", "verify_after"}
  BY DEF ContactInv, SendRequest, Submit, Pause, Broken, Leave, Go, End
<1>9. RequestTypes'
  <2>1. (scope \in [max : [Scopes -> Nat], used : [Scopes -> Nat]])'
    BY <1>5, <1>7 DEF ContactInv, TypeOK, RequestTypes, ScopeRecord,
       requestVars
  <2>2. (payload \in 0 .. length)' /\ (replays \in 0 .. MaxReplays)'
    BY <1>6, <1>7 DEF ContactInv, TypeOK, RequestTypes, EndpointTypes,
       StoreTypes, requestVars
  <2> QED BY <2>1, <2>2 DEF RequestTypes
<1>10. EndpointTypes'
  BY DEF ContactInv, TypeOK, EndpointTypes, SendRequest, Submit, Pause,
     Broken, Leave
<1>11. StoreTypes'
  BY DEF ContactInv, TypeOK, StoreTypes, SendRequest, Submit, Pause, Broken,
     Leave, storeVars
<1>12. CounterTypes'
  BY DEF ContactInv, TypeOK, CounterTypes, SendRequest, Submit, Pause, Broken,
     Leave, Spend, counters
<1>13. TypeOK'
  BY <1>1, <1>3, <1>9, <1>10, <1>11, <1>12, RootsStay
  DEF TypeOK
<1>14. StageInv'
  <2>1. stage' = "data" => DataSize' = DataOverhead + PayloadLimit /\ EffectiveLimit' = EffectiveLimit
    BY <1>7 DEF DataSize, EffectiveLimit
  <2> QED BY <1>6, <1>7, <1>8, <2>1
      DEF ContactInv, StageInv, Before, After, Sending, storeVars, SendRequest
<1>15. ReceiptAfterCommit'
  BY DEF ContactInv, ReceiptAfterCommit, SendRequest, Submit, Pause, Broken,
     Leave, storeVars
<1>16. UsefulCountedOnce'
  BY DEF ContactInv, UsefulCountedOnce, SendRequest, Submit, Pause, Broken,
     Leave, storeVars, counters
<1>17. RequestLeavesRoom'
  <2> SUFFICES ASSUME stage' = "data"
               PROVE  DataAdmitted' /\ Admitted(DataSize)'
    BY DEF RequestLeavesRoom
  <2>1. /\ scope' = charged /\ payload' = PayloadLimit
        /\ remaining' = remaining - RequestSize
        /\ EffectiveLimit' = EffectiveLimit /\ PayloadLimit > 0
    BY <1>7 DEF EffectiveLimit
  <2>2. DataSize' = DataOverhead + PayloadLimit
    BY <2>1 DEF DataSize
  <2>3. Admitted(DataSize)'
    BY <1>6, <2>1, <2>2, LimitType DEF Admitted, ContactInv, TypeOK,
       CarrierTypes
  <2>4. DataAdmitted'
    <3>1. /\ RequestSize + DataSize' <= remaining /\ 0 + DataSize' <= remaining
      BY <1>6, <2>1, <2>2 DEF ContactInv, TypeOK, CarrierTypes
    <3> QED BY <1>5, <2>1, <3>1 DEF DataAdmitted, Admits, Scopes
  <2> QED BY <2>3, <2>4
<1>18. ScopeTracksCarrier'
  BY <1>5, <1>7, <1>8 DEF ScopeTracksCarrier, Scopes
<1>19. LedgerInv'
  BY DEF ContactInv, TypeOK, CounterTypes, Balanced, LedgerInv, SendRequest,
     Submit, Pause, Broken, Leave, Go, End, storeVars, counters
<1> QED BY <1>13, <1>14, <1>15, <1>16, <1>17, <1>18, <1>19,
        RootsStay DEF ContactInv

LEMMA SendDataInv ==
  ASSUME ContactInv, SendData,
         UNCHANGED length, UNCHANGED rootVars
  PROVE  ContactInv'
<1> USE SizesArePositive, ConstantsAssumption
<1>1. ProgressTypes'
  BY DEF ContactInv, TypeOK, ProgressTypes, SendData, Submit, Broken,
     Leave, Go, End
<1>2. CarrierStep(DataSize)
  BY DEF ContactInv, CarrierStep, SendData, Submit, carrierVars
<1>3. CarrierTypes'
  BY <1>2, CarrierStepType, DataSizeType DEF ContactInv
<1>4. /\ DataCharged \in ScopeRecord /\ DataCharged.max = scope.max
      /\ DataCharged.used["total"] = scope.used["total"] + DataSize
      /\ scope \in ScopeRecord
  BY DataChargedType DEF ContactInv, TypeOK, RequestTypes, ScopeRecord
<1>5. (scope' = scope \/ scope' = DataCharged) /\ payload' = payload
  BY DEF SendData, Submit, Broken, Leave, requestVars
<1>6. stage' \in {"replay", "replay_corrupt"} =>
         scope' = DataCharged /\ (remaining' = remaining - DataSize \/ ~Admitted(DataSize))
  BY DEF SendData, Submit, Broken, Leave, Go, End
<1>7. stage' # "data"
  BY DEF SendData, Submit, Broken, Leave, Go, End
<1>8. RequestTypes'
  <2>1. (scope \in [max : [Scopes -> Nat], used : [Scopes -> Nat]])'
    BY <1>4, <1>5 DEF ScopeRecord
  <2>2. (payload \in 0 .. length)'
    BY <1>5 DEF ContactInv, TypeOK, RequestTypes
  <2>3. (replays \in 0 .. MaxReplays)'
    BY DEF ContactInv, TypeOK, RequestTypes, SendData, Submit, Broken,
       Leave, requestVars
  <2> QED BY <2>1, <2>2, <2>3 DEF RequestTypes
<1>9. EndpointTypes'
  BY DEF ContactInv, TypeOK, EndpointTypes, SendData, Submit, Broken,
     Leave
<1>10. StoreTypes'
  <2>1. (accepted \in BOOLEAN)'
    BY DEF ContactInv, TypeOK, StoreTypes, SendData, Submit, Broken,
       Leave, storeVars
  <2>2. (prefix \in 0 .. length)'
    BY DEF ContactInv, TypeOK, EndpointTypes, StoreTypes, StageInv, SendData,
       Submit, Broken, Leave, storeVars
  <2>3. (intact \in BOOLEAN)'
    BY DEF ContactInv, TypeOK, StoreTypes, SendData, Submit, Broken,
       Leave, storeVars
  <2>4. (committed \in BOOLEAN)'
    BY DEF ContactInv, TypeOK, StoreTypes, SendData, Submit, Broken,
       Leave, storeVars
  <2>5. (receipted \in BOOLEAN)'
    BY DEF ContactInv, TypeOK, StoreTypes, SendData, Submit, Broken,
       Leave, storeVars
  <2> QED BY <2>1, <2>2, <2>3, <2>4, <2>5 DEF StoreTypes
<1>11. CounterTypes'
  BY DEF ContactInv, TypeOK, RequestTypes, CounterTypes, SendData, Submit,
     Broken, Leave, Spend, Arrived, counters
<1>12. TypeOK'
  BY <1>1, <1>3, <1>8, <1>9, <1>10, <1>11, RootsStay
  DEF TypeOK
<1>13. DataSize' = DataSize /\ UNCHANGED <<limit, profile, accepted, committed>>
  BY <1>5 DEF DataSize, SendData, Submit, Broken, Leave, carrierVars,
     storeVars
<1>14. EffectiveLimit' = EffectiveLimit
  BY <1>13 DEF EffectiveLimit
<1>15. StageInv'
  <2>1. stage' \in Sending => stage \in Sending
    BY DEF SendData, Sending
  <2>2. stage \in After /\ stage' \notin Before
    BY DEF SendData, Before, After, Go, End, Submit, Broken, Leave
  <2> QED BY <1>7, <1>13, <1>14, <2>1, <2>2 DEF ContactInv, StageInv, Sending
<1>16. ReceiptAfterCommit'
  BY DEF ContactInv, StageInv, Sending, ReceiptAfterCommit, SendData, Submit,
     Broken, Leave, storeVars
<1>17. UsefulCountedOnce'
  BY DEF ContactInv, UsefulCountedOnce, SendData, Submit, Broken,
     Leave, storeVars, counters
<1>18. RequestLeavesRoom'
  BY DEF ContactInv, RequestLeavesRoom, SendData, Submit, Broken,
     Leave, Go, End
<1>19. ScopeTracksCarrier'
  <2> SUFFICES ASSUME stage' \in {"replay", "replay_corrupt"}
               PROVE  scope'.max["total"] - scope'.used["total"] = remaining'
    BY <1>7 DEF ScopeTracksCarrier
  <2>1. stage \in Sending /\ DataAdmitted
    BY DEF SendData, Sending, Go
  <2>2. /\ scope.max["total"] - scope.used["total"] = remaining
        /\ DataSize <= EffectiveLimit
        /\ scope.used["total"] + DataSize <= scope.max["total"]
        /\ scope.used["total"] \in Nat /\ scope.max["total"] \in Nat
    BY <1>4, <2>1 DEF ContactInv, ScopeTracksCarrier, StageInv, Sending,
       DataAdmitted, Admits, ScopeRecord, Scopes
  <2>3. DataSize \in Nat /\ Admitted(DataSize)
    BY <2>2, DataSizeType DEF Admitted, ContactInv
  <2> QED BY <1>4, <1>6, <2>2, <2>3
<1>20. LedgerInv'
  <2>1. /\ stage = "data" /\ payload \in Nat /\ prefix \in Nat
        /\ ledger \in [before : 0 .. length, delivered : Nat, duplicate : Nat, failures : 0 .. 2]
    BY DEF ContactInv, TypeOK, RequestTypes, EndpointTypes, StoreTypes,
       CounterTypes, SendData
  <2>2. /\ Arrived.delivered = ledger.delivered + payload
        /\ Arrived.duplicate = ledger.duplicate
        /\ Arrived.before = ledger.before /\ Arrived.failures = ledger.failures
    BY <2>1 DEF Arrived
  <2>3. \/ stage' = "idle" /\ outcome' # "report"
        \/ /\ stage' \in {"replay", "replay_corrupt", "verify_after"}
           /\ \/ prefix' = prefix /\ ledger' = ledger
              \/ prefix' = prefix + payload /\ ledger' = Arrived
    BY DEF SendData, Submit, Broken, Leave, Go, End, storeVars, counters
  <2> QED BY <2>1, <2>2, <2>3 DEF ContactInv, LedgerInv
<1> QED BY <1>12, <1>15, <1>16, <1>17, <1>18, <1>19, <1>20,
        RootsStay DEF ContactInv

LEMMA ReplayDataInv ==
  ASSUME ContactInv, ReplayData,
         UNCHANGED length, UNCHANGED rootVars
  PROVE  ContactInv'
<1> USE SizesArePositive, ConstantsAssumption
<1>1. ProgressTypes'
  BY DEF ContactInv, TypeOK, ProgressTypes, ReplayData, Submit, Broken,
     Leave, Go, End
<1>2. CarrierStep(DataSize)
  BY DEF ContactInv, CarrierStep, ReplayData, Submit, carrierVars
<1>3. CarrierTypes'
  BY <1>2, CarrierStepType, DataSizeType DEF ContactInv
<1>4. /\ DataCharged \in ScopeRecord /\ DataCharged.max = scope.max
      /\ DataCharged.used["total"] = scope.used["total"] + DataSize
      /\ scope \in ScopeRecord
  BY DataChargedType DEF ContactInv, TypeOK, RequestTypes, ScopeRecord
<1>5. (scope' = scope \/ scope' = DataCharged) /\ payload' = payload
  BY DEF ReplayData, Submit, Broken, Leave, requestVars
<1>6. stage' \in {"replay", "replay_corrupt"} =>
         scope' = DataCharged /\ (remaining' = remaining - DataSize \/ ~Admitted(DataSize))
  BY DEF ReplayData, Submit, Broken, Leave, Go, End
<1>7. stage' # "data"
  BY DEF ReplayData, Submit, Broken, Leave, Go, End
<1>8. RequestTypes'
  <2>1. (scope \in [max : [Scopes -> Nat], used : [Scopes -> Nat]])'
    BY <1>4, <1>5 DEF ScopeRecord
  <2>2. (payload \in 0 .. length)'
    BY <1>5 DEF ContactInv, TypeOK, RequestTypes
  <2>3. (replays \in 0 .. MaxReplays)'
    <3>1. replays' = replays \/ (replays > 0 /\ replays' = replays - 1)
      BY DEF ReplayData
    <3> QED BY <3>1 DEF ContactInv, TypeOK, RequestTypes
  <2> QED BY <2>1, <2>2, <2>3 DEF RequestTypes
<1>9. EndpointTypes'
  BY DEF ContactInv, TypeOK, EndpointTypes, ReplayData, Submit, Broken,
     Leave
<1>10. StoreTypes'
  BY DEF ContactInv, TypeOK, StoreTypes, ReplayData, Submit, Broken,
     Leave, storeVars
<1>11. /\ ledger' = ledger \/ ledger' = Replayed
       /\ useful' = useful /\ prefix' = prefix
  BY DEF ReplayData, Submit, Broken, Leave, counters, storeVars
<1>12. /\ Replayed \in [before : 0 .. length, delivered : Nat, duplicate : Nat, failures : 0 .. 2]
       /\ Replayed.delivered - Replayed.duplicate = ledger.delivered - ledger.duplicate
       /\ Replayed.before = ledger.before /\ Replayed.failures = ledger.failures
  <2> DEFINE more == ledger.delivered + payload
             again == ledger.duplicate + payload
  <2>1. payload \in Nat /\ more \in Nat /\ again \in Nat
    BY ConstantsAssumption
    DEF ContactInv, TypeOK, CounterTypes, RequestTypes, EndpointTypes
  <2>2. /\ Replayed = [ledger EXCEPT !.delivered = more, !.duplicate = again]
        /\ more - again = ledger.delivered - ledger.duplicate
    BY <2>1 DEF Replayed, ContactInv, TypeOK, CounterTypes
  <2> HIDE DEF more, again
  <2> QED BY <2>1, <2>2 DEF ContactInv, TypeOK, CounterTypes
<1>13. CounterTypes'
  <2>1. (ledger \in [before : 0 .. length, delivered : Nat, duplicate : Nat, failures : 0 .. 2])' /\ (useful \in Nat)'
    BY <1>11, <1>12 DEF ContactInv, TypeOK, CounterTypes
  <2>2. (disturbances \in 0 .. MaxDisturbances)'
    BY DEF ReplayData, Submit, Broken, Leave, Spend, ContactInv,
       TypeOK, CounterTypes
  <2> QED BY <2>1, <2>2 DEF CounterTypes
<1>14. TypeOK'
  BY <1>1, <1>3, <1>8, <1>9, <1>10, <1>13, RootsStay
  DEF TypeOK
<1>15. DataSize' = DataSize /\ UNCHANGED <<limit, profile, accepted, committed>>
  BY <1>5 DEF DataSize, ReplayData, Submit, Broken, Leave, carrierVars,
     storeVars
<1>16. EffectiveLimit' = EffectiveLimit
  BY <1>15 DEF EffectiveLimit
<1>17. StageInv'
  <2>1. stage' \in Sending => stage \in Sending
    BY DEF ReplayData, Sending
  <2>2. stage \in After /\ stage' \notin Before
    BY DEF ReplayData, Before, After, Go, End, Submit, Broken, Leave
  <2> QED BY <1>7, <1>15, <1>16, <2>1, <2>2 DEF ContactInv, StageInv, Sending
<1>18. ReceiptAfterCommit'
  BY DEF ContactInv, ReceiptAfterCommit, ReplayData, Submit, Broken,
     Leave, storeVars
<1>19. UsefulCountedOnce'
  BY DEF ContactInv, UsefulCountedOnce, ReplayData, Submit, Broken,
     Leave, storeVars, counters
<1>20. RequestLeavesRoom'
  BY DEF ContactInv, RequestLeavesRoom, ReplayData, Submit, Broken,
     Leave, Go, End
<1>21. ScopeTracksCarrier'
  <2> SUFFICES ASSUME stage' \in {"replay", "replay_corrupt"}
               PROVE  scope'.max["total"] - scope'.used["total"] = remaining'
    BY <1>7 DEF ScopeTracksCarrier
  <2>1. stage \in Sending /\ DataAdmitted
    BY DEF ReplayData, Sending, Go
  <2>2. /\ scope.max["total"] - scope.used["total"] = remaining
        /\ DataSize <= EffectiveLimit
        /\ scope.used["total"] + DataSize <= scope.max["total"]
        /\ scope.used["total"] \in Nat /\ scope.max["total"] \in Nat
    BY <1>4, <2>1 DEF ContactInv, ScopeTracksCarrier, StageInv, Sending,
       DataAdmitted, Admits, ScopeRecord, Scopes
  <2>3. DataSize \in Nat /\ Admitted(DataSize)
    BY <2>2, DataSizeType DEF Admitted, ContactInv
  <2> QED BY <1>4, <1>6, <2>2, <2>3
<1>22. LedgerInv'
  <2>1. \/ stage' = "idle" /\ outcome' # "report"
        \/ stage' \in {"replay", "replay_corrupt", "verify_after"}
    BY DEF ReplayData, Submit, Broken, Leave, Go, End
  <2>2. stage \in {"replay", "replay_corrupt"}
    BY DEF ReplayData
  <2> QED BY <1>11, <1>12, <2>1, <2>2 DEF ContactInv, LedgerInv
<1> QED BY <1>14, <1>17, <1>18, <1>19, <1>20, <1>21, <1>22,
        RootsStay DEF ContactInv

LEMMA SendReceiptInv ==
  ASSUME ContactInv, SendReceipt,
         UNCHANGED length, UNCHANGED rootVars
  PROVE  ContactInv'
<1> USE SizesArePositive, ConstantsAssumption
<1>1. ProgressTypes'
  BY DEF ContactInv, ProgressTypes, SendReceipt, Submit, Pause, Leave,
     Stumble, End
<1>2. CarrierStep(ReceiptSize)
  BY DEF ContactInv, CarrierStep, SendReceipt, Submit,
     Stumble, carrierVars
<1>3. CarrierTypes'
  BY <1>2, CarrierStepType, DataSizeType DEF ContactInv
<1>4. RequestTypes'
  BY DEF ContactInv, TypeOK, RequestTypes, SendReceipt, Submit, Pause, Leave, requestVars
<1>5. EndpointTypes'
  BY DEF ContactInv, TypeOK, EndpointTypes, SendReceipt, Submit, Pause,
     Leave, Awaiting, SenderAfterFailure
<1>6. StoreTypes'
  BY DEF ContactInv, TypeOK, StoreTypes, SendReceipt, Submit, Pause, Leave, storeVars
<1>7. CounterTypes'
  BY DEF ContactInv, TypeOK, CounterTypes, SendReceipt, Submit, Pause, Leave, Stumble, Spend, counters
<1>8. TypeOK'
  BY <1>1, <1>3, <1>4, <1>5, <1>6, <1>7, RootsStay
  DEF TypeOK
<1>9. StageInv'
  BY DEF StageInv, Before, After, Sending, SendReceipt, Submit, Pause, Leave, Stumble, End
<1>10. /\ UNCHANGED <<length, accepted, prefix, intact, committed, counters>>
       /\ stage = "receipt" /\ stage' = "idle"
       /\ receipted' = receipted \/ Receipts
  BY DEF SendReceipt, Submit, Pause, Leave, Stumble, End, storeVars
<1>11. ReceiptAfterCommit'
  BY <1>10 DEF ContactInv, ReceiptAfterCommit, Receipts
<1>12. UsefulCountedOnce'
  BY DEF ContactInv, UsefulCountedOnce, SendReceipt, Submit, Pause, Leave, storeVars, counters
<1>13. RequestLeavesRoom'
  BY DEF RequestLeavesRoom, SendReceipt, Submit, Pause, Leave,
     Stumble, End
<1>14. ScopeTracksCarrier'
  BY DEF ScopeTracksCarrier, SendReceipt, Submit, Pause, Leave,
     Stumble, End
<1>15. LedgerInv'
  <2>1. Balanced
    BY <1>10 DEF ContactInv, LedgerInv, Balanced
  <2>2. ledger' = ledger /\ prefix' = prefix
    BY <1>10 DEF counters
  <2>3. Balanced'
    BY <2>1, <2>2 DEF Balanced
  <2> QED BY <1>10, <2>3 DEF LedgerInv
<1> QED BY <1>8, <1>9, <1>11, <1>12, <1>13, <1>14, <1>15,
        RootsStay DEF ContactInv

LEMMA ContactInvInit ==
  Init => ContactInv
<1> SUFFICES ASSUME Init PROVE ContactInv
  OBVIOUS
<1> USE ConstantsAssumption DEF Init
<1>1. RequestTypes
  <2>1. scope \in ScopeRecord
    BY ScopeOfType
  <2> QED BY <2>1 DEF RequestTypes, ScopeRecord
<1>2. ProgressTypes /\ CarrierTypes
  BY DEF ProgressTypes, CarrierTypes
<1>3. length \in Nat /\ 0 \in 0 .. length
  OBVIOUS
<1>4. EndpointTypes
  BY DEF EndpointTypes
<1>5. StoreTypes
  BY <1>3 DEF StoreTypes
<1>6. CounterTypes
  <2>1. 0 \in 0 .. 2 /\ 0 \in 0 .. MaxDisturbances
    OBVIOUS
  <2> QED BY <1>3, <2>1 DEF CounterTypes
<1>10. RootTypes /\ KeptInv
  <2>1. Fresh \in Stores /\ Sound(Fresh)
    BY <1>3, FreshIsSound
  <2> QED BY <2>1 DEF RootTypes, KeptInv, Directories
<1>7. TypeOK
  BY <1>1, <1>2, <1>4, <1>5, <1>6, <1>10 DEF TypeOK
<1>8. StageInv /\ RequestLeavesRoom /\ ScopeTracksCarrier /\ LedgerInv
  BY DEF StageInv, Before, After, Sending, RequestLeavesRoom,
         ScopeTracksCarrier, LedgerInv
<1>9. ReceiptAfterCommit /\ UsefulCountedOnce
  BY DEF ReceiptAfterCommit, UsefulCountedOnce
<1> QED BY <1>7, <1>8, <1>9, <1>10 DEF ContactInv

LEMMA ContactInvNext ==
  ASSUME ContactInv, [Next]_vars
  PROVE  ContactInv'
<1>1. ASSUME NEW budget \in Budgets, NEW maximum \in RecordLimits,
             NEW up \in Connections, NEW again \in 0 .. MaxReplays,
             NEW anew \in Anew, NEW where \in Directories,
             StartContact(budget, maximum, up, again, anew, where)
      PROVE  ContactInv'
  BY <1>1, StartContactInv
<1>2. ASSUME NEW d \in Directories, Expire(d)
      PROVE  ContactInv'
  BY <1>2, ExpireInv
<1>3. CASE Step
  <2> UNCHANGED length /\ UNCHANGED rootVars
    BY <1>3 DEF Step
  <2>1. CASE SendCapabilities
    BY <2>1, SendCapabilitiesInv
  <2>2. CASE ReplyCapabilities
    BY <2>2, ReplyCapabilitiesInv
  <2>3. CASE SendSummary
    BY <2>3, SendSummaryInv
  <2>4. CASE SendOffer
    BY <2>4, SendOfferInv
  <2>5. CASE VerifyAndCommit
    BY <2>5, VerifyAndCommitInv
  <2>6. CASE SendRequest
    BY <2>6, SendRequestInv
  <2>7. CASE SendData
    BY <2>7, SendDataInv
  <2>8. CASE ReplayData
    BY <2>8, ReplayDataInv
  <2>9. CASE SendReceipt
    BY <2>9, SendReceiptInv
  <2> QED BY <1>3, <2>1, <2>2, <2>3, <2>4, <2>5, <2>6, <2>7, <2>8, <2>9 DEF
     Step
<1>4. CASE UNCHANGED vars
  <2> USE <1>4 DEF vars, carrierVars, requestVars, storeVars, counters, rootVars
  <2>1. TypeOK'
    BY RootsStay DEF ContactInv, TypeOK, ProgressTypes, CarrierTypes,
       RequestTypes, EndpointTypes, StoreTypes, CounterTypes
  <2>2. DataSize' = DataSize /\ EffectiveLimit' = EffectiveLimit
    BY DEF DataSize, EffectiveLimit
  <2>3. StageInv' /\ ScopeTracksCarrier'
    BY <2>2 DEF ContactInv, StageInv, ScopeTracksCarrier
  <2>4. ReceiptAfterCommit' /\ UsefulCountedOnce'
    BY DEF ContactInv, ReceiptAfterCommit, UsefulCountedOnce
  <2>5. RequestLeavesRoom'
    BY <2>2 DEF ContactInv, RequestLeavesRoom, DataAdmitted, Admitted
  <2>6. Balanced => Balanced'
    BY DEF Balanced
  <2>7. LedgerInv'
    BY <2>6 DEF ContactInv, LedgerInv
  <2> QED BY <2>1, <2>3, <2>4, <2>5, <2>7, RootsStay DEF ContactInv
<1> QED BY <1>1, <1>2, <1>3, <1>4 DEF Next

\* The invariant holds in every reachable state, from the first contact to the
\* last, whatever is lost, corrupted, restarted or discarded between them.
THEOREM ContactInvariant == Spec => []ContactInv
  BY ContactInvInit, ContactInvNext, PTL DEF Spec

-----------------------------------------------------------------------------
(* What it shows.                                                          *)

\* Every variable keeps its type; the report counts at most two refused
\* candidates (run_contact).
THEOREM ContactTyped == Spec => []TypeOK
<1>1. ContactInv => TypeOK
  BY DEF ContactInv
<1> QED BY <1>1, ContactInvariant, PTL

\* A receipt is only retained for committed bytes, and only an intact, whole
\* and accepted representation is committed (run_contact's last steps).
THEOREM ReceiptImpliesCommit == Spec => []ReceiptAfterCommit
<1>1. ContactInv => ReceiptAfterCommit
  BY DEF ContactInv
<1> QED BY <1>1, ContactInvariant, PTL

\* useful_committed_octets counts the representation once, over all contacts
\* (verify_and_commit).
THEOREM UsefulAtMostOnce == Spec => []UsefulCountedOnce
<1>1. ContactInv => UsefulCountedOnce
  BY DEF ContactInv
<1> QED BY <1>1, ContactInvariant, PTL

\* The payload a request asks for is one its DATA record can carry within the
\* scope, the carrier's budget and the ceiling negotiated (run_contact).
THEOREM RequestedDataFits == Spec => []RequestLeavesRoom
<1>1. ContactInv => RequestLeavesRoom
  BY DEF ContactInv
<1> QED BY <1>1, ContactInvariant, PTL

\* The accepted budget scope and the carrier's budget are spent together
\* (BudgetScope::admit and DeterministicCarrier::send).
THEOREM ScopeIsTheCarriers == Spec => []ScopeTracksCarrier
<1>1. ContactInv => ScopeTracksCarrier
  BY DEF ContactInv
<1> QED BY <1>1, ContactInvariant, PTL

\* The report's payload accounts explain the change of the durable prefix
\* (Accounting and contact_report).
THEOREM ReportsBalance == Spec => []ReportBalances
<1>1. ContactInv => ReportBalances
  BY DEF ContactInv, LedgerInv, ReportBalances
<1> QED BY <1>1, ContactInvariant, PTL

-----------------------------------------------------------------------------
(* The sender and what the receiver holds.                                 *)

\* Between contacts nothing a directory holds of the transfer changes.
LEMMA ContactsKeepFacts ==
  ASSUME ContactInv, NEW budget \in Budgets, NEW maximum \in RecordLimits,
         NEW up \in Connections, NEW again \in 0 .. MaxReplays,
         NEW anew \in Anew, NEW where \in Directories,
         StartContact(budget, maximum, up, again, anew, where),
         NEW d \in Directories
  PROVE  /\ (Held(d).committed)' = Held(d).committed
         /\ (Held(d).receipted)' = Held(d).receipted
<1>1. root' = where /\ kept \in [Directories -> Stores] /\ root \in Directories
  BY DEF StartContact, ContactInv, TypeOK, RootTypes
<1>2. CASE d = where
  BY <1>1, <1>2 DEF StartContact, Held
<1>3. CASE d # where
  <2>1. kept'[d] = Held(d)
    BY <1>1, <1>3 DEF StartContact, Held
  <2> QED BY <1>1, <1>3, <2>1 DEF Held
<1> QED BY <1>2, <1>3

LEMMA ExpiryKeepsFacts ==
  ASSUME ContactInv, NEW e \in Directories, Expire(e), NEW d \in Directories
  PROVE  /\ (Held(d).committed)' = Held(d).committed
         /\ (Held(d).receipted)' = Held(d).receipted
<1>1. root' = root /\ committed' = committed /\ receipted' = receipted
  BY DEF Expire, storeVars
<1>2. kept \in [Directories -> Stores]
  BY DEF ContactInv, TypeOK, RootTypes
<1>3. /\ kept'[d].committed = kept[d].committed
      /\ kept'[d].receipted = kept[d].receipted
  <2>1. kept' \in {kept, [kept EXCEPT ![e].profile = None]}
    BY DEF Expire
  <2> QED BY <1>2, <2>1 DEF Stores
<1> QED BY <1>1, <1>3 DEF Held

\* A step of a contact undoes neither a commit nor a receipt, and moves the
\* sender on to one only with the fact in the store.
StepFacts ==
    /\ committed => committed'
    /\ receipted => receipted'
    /\ \/ sender' \in {sender, "Offered", "Sending"}
       \/ sender' = "AwaitingReceipt" /\ committed'
       \/ sender' = "Receipted" /\ receipted'

LEMMA StepKeepsFacts ==
  ASSUME ContactInv, Step
  PROVE  StepFacts
<1> USE DEF StepFacts
<1>1. ASSUME SendCapabilities PROVE StepFacts
  BY <1>1 DEF SendCapabilities, Submit, Pause, Broken, Leave, storeVars
<1>2. ASSUME ReplyCapabilities PROVE StepFacts
  BY <1>2 DEF ReplyCapabilities, Submit, Pause, Broken, Leave, storeVars
<1>3. ASSUME SendSummary PROVE StepFacts
  BY <1>3 DEF SendSummary, Submit, Pause, Broken, Leave, storeVars
<1>4. ASSUME SendOffer PROVE StepFacts
  BY <1>4 DEF SendOffer, Submit, Pause, Broken, Leave, storeVars
<1>5. ASSUME VerifyAndCommit PROVE StepFacts
  BY <1>5 DEF VerifyAndCommit, Verifies
<1>6. ASSUME SendRequest PROVE StepFacts
  BY <1>6 DEF SendRequest, Submit, Pause, Broken, Leave, storeVars
<1>7. ASSUME SendData PROVE StepFacts
  BY <1>7 DEF SendData, Submit, Broken, Leave, storeVars
<1>8. ASSUME ReplayData PROVE StepFacts
  BY <1>8 DEF ReplayData, Submit, Broken, Leave, storeVars
<1>9. ASSUME SendReceipt PROVE StepFacts
  <2>1. SenderAfterFailure = Awaiting /\ Awaiting \in {sender, "AwaitingReceipt"}
    BY DEF SenderAfterFailure, Awaiting
  <2>2. \/ sender' = sender /\ UNCHANGED storeVars
        \/ /\ Receipts /\ committed' = committed
           /\ \/ sender' = Awaiting
              \/ sender' = "Receipted" /\ receipted' = TRUE
    BY <1>9, <2>1 DEF SendReceipt, Submit, Pause, Leave, storeVars
  <2> QED BY <2>1, <2>2 DEF Receipts, storeVars
<1> QED BY <1>1, <1>2, <1>3, <1>4, <1>5, <1>6, <1>7, <1>8, <1>9 DEF Step

LEMMA SenderBehindNext ==
  ASSUME ContactInv, SenderNeverAhead, [Next]_vars
  PROVE  SenderNeverAhead'
<1>1. ASSUME NEW budget \in Budgets, NEW maximum \in RecordLimits,
             NEW up \in Connections, NEW again \in 0 .. MaxReplays,
             NEW anew \in Anew, NEW where \in Directories,
             StartContact(budget, maximum, up, again, anew, where)
      PROVE  SenderNeverAhead'
  <2>1. sender' \in {sender, "Available"}
    BY <1>1 DEF StartContact
  <2>2. \A d \in Directories :
          /\ (Held(d).committed)' = Held(d).committed
          /\ (Held(d).receipted)' = Held(d).receipted
    BY <1>1, ContactsKeepFacts
  <2> QED BY <2>1, <2>2 DEF SenderNeverAhead
<1>2. ASSUME NEW e \in Directories, Expire(e)
      PROVE  SenderNeverAhead'
  <2>1. sender' = sender
    BY <1>2 DEF Expire
  <2>2. \A d \in Directories :
          /\ (Held(d).committed)' = Held(d).committed
          /\ (Held(d).receipted)' = Held(d).receipted
    BY <1>2, ExpiryKeepsFacts
  <2> QED BY <2>1, <2>2 DEF SenderNeverAhead
<1>3. CASE Step
  <2>1. StepFacts /\ UNCHANGED rootVars /\ root \in Directories
    BY <1>3, StepKeepsFacts DEF Step, ContactInv, TypeOK, RootTypes
  <2>2. \A d \in Directories :
          /\ Held(d).committed => (Held(d).committed)'
          /\ Held(d).receipted => (Held(d).receipted)'
    BY <2>1 DEF Held, StepFacts, rootVars
  <2>3. /\ committed' => (Held(root).committed)'
        /\ receipted' => (Held(root).receipted)'
        /\ root' = root
    BY <2>1 DEF Held, rootVars
  <2> QED BY <2>1, <2>2, <2>3 DEF SenderNeverAhead, StepFacts
<1>4. CASE UNCHANGED vars
  BY <1>4 DEF vars, storeVars, rootVars, SenderNeverAhead, Held
<1> QED BY <1>1, <1>2, <1>3, <1>4 DEF Next

\* No loss, crash, failing store or discarded receiver makes the sender believe
\* in a commit or a receipt that no directory holds (run_contact's order: the
\* receiver retains, then the sender moves).
THEOREM SenderStaysBehind == Spec => []SenderNeverAhead
<1>1. Init => SenderNeverAhead
  BY DEF Init, SenderNeverAhead
<1>2. ContactInv /\ SenderNeverAhead /\ [Next]_vars => SenderNeverAhead'
  BY SenderBehindNext
<1> QED BY <1>1, <1>2, ContactInvariant, PTL DEF Spec

\* With one directory a sender past Available has had its offer accepted there,
\* so that neither an offer nor a request finds it in a state it cannot leave.
SenderInv ==
    /\ sender # "Requested"
    /\ ~accepted => sender = "Available"
    /\ SenderTransitionsLegal

LEMMA SenderInvNext ==
  ASSUME FullRestarts = {}, ContactInv, SenderNeverAhead, SenderInv,
         [Next]_vars
  PROVE  SenderInv'
<1> USE DEF SenderInv, SenderTransitionsLegal
<1>1. Directories = {root} /\ root = "persistent"
  BY DEF ContactInv, TypeOK, RootTypes, Directories
<1>2. ASSUME NEW budget \in Budgets, NEW maximum \in RecordLimits,
             NEW up \in Connections, NEW again \in 0 .. MaxReplays,
             NEW anew \in Anew, NEW where \in Directories,
             StartContact(budget, maximum, up, again, anew, where)
      PROVE  SenderInv'
  <2>1. accepted' = accepted /\ sender' \in {sender, "Available"}
    BY <1>1, <1>2 DEF StartContact, Held
  <2> QED BY <1>2, <2>1 DEF StartContact
<1>3. ASSUME NEW d \in Directories, Expire(d)
      PROVE  SenderInv'
  BY <1>3 DEF Expire, storeVars
<1>4. ASSUME SendCapabilities PROVE SenderInv'
  BY <1>4 DEF SendCapabilities, Submit, Pause, Broken, Leave, Go, End,
     storeVars
<1>5. ASSUME ReplyCapabilities PROVE SenderInv'
  BY <1>5 DEF ReplyCapabilities, Submit, Stumble, Pause, Broken, Leave, Go,
     End, storeVars
<1>6. ASSUME SendSummary PROVE SenderInv'
  BY <1>6 DEF SendSummary, Submit, Pause, Broken, Leave, Go, End, storeVars
<1>7. ASSUME SendOffer PROVE SenderInv'
  <2>1. ~accepted /\ sender = "Available"
    BY <1>7 DEF SendOffer, ContactInv, StageInv, Before
  <2>2. <<sender, "Offered">> \in Forward
    BY <2>1 DEF Forward
  <2> QED BY <1>7, <2>1, <2>2 DEF SendOffer, Submit, Stumble, Pause, Broken,
          Leave, Go, End, storeVars
<1>8. ASSUME VerifyAndCommit PROVE SenderInv'
  BY <1>8 DEF VerifyAndCommit, Verifies, Go, End
<1>9. ASSUME SendRequest PROVE SenderInv'
  <2>1. accepted
    BY <1>9 DEF SendRequest, ContactInv, StageInv, After
  <2>2. ~committed => sender \in {"Available", "Offered", "Sending"}
    BY <1>1 DEF SenderNeverAhead, Held, ContactInv, ReceiptAfterCommit,
       TypeOK, EndpointTypes
  <2> QED BY <1>9, <2>1, <2>2 DEF SendRequest, Submit, Pause, Broken, Leave,
          Go, End, storeVars
<1>10. ASSUME SendData PROVE SenderInv'
  BY <1>10 DEF SendData, Submit, Broken, Leave, Go, End, storeVars
<1>11. ASSUME ReplayData PROVE SenderInv'
  BY <1>11 DEF ReplayData, Submit, Broken, Leave, Go, End, storeVars
<1>12. ASSUME SendReceipt PROVE SenderInv'
  <2>1. accepted /\ accepted' = accepted
    BY <1>12 DEF SendReceipt, Submit, Pause, Leave, storeVars, ContactInv,
       StageInv, After
  <2>2. sender' \in {sender, "AwaitingReceipt", "Receipted"}
    BY <1>12 DEF SendReceipt, Submit, Pause, Leave, Awaiting,
       SenderAfterFailure
  <2>3. outcome' \in {"report", "disconnected", "store"}
    BY <1>12 DEF SendReceipt, Submit, Stumble, Pause, Leave, End
  <2> QED BY <2>1, <2>2, <2>3
<1>13. CASE UNCHANGED vars
  BY <1>13 DEF vars, storeVars
<1> QED BY <1>2, <1>3, <1>4, <1>5, <1>6, <1>7, <1>8, <1>9, <1>10, <1>11,
           <1>12, <1>13 DEF Next, Step

\* Over a receiver that keeps its directory SenderState::transition refuses
\* nothing run_contact asks of it.
THEOREM SenderStaysLegal ==
  ASSUME FullRestarts = {}
  PROVE  Spec => []SenderTransitionsLegal
<1>1. Init => SenderInv
  BY DEF Init, SenderInv, SenderTransitionsLegal
<1>2. ContactInv /\ SenderNeverAhead /\ SenderInv /\ [Next]_vars => SenderInv'
  BY SenderInvNext
<1>3. SenderInv => SenderTransitionsLegal
  BY DEF SenderInv
<1> QED BY <1>1, <1>2, <1>3, ContactInvariant, SenderStaysBehind, PTL DEF Spec

=============================================================================
