--------------------- MODULE ExperimentalTransfer_proofs ---------------------
(***************************************************************************)
(* Safety of the generation-0 transfer, for every length, every set of     *)
(* contacts and any number of crashes, torn appends, redelivered records   *)
(* and wrong sources.                                                      *)
(*                                                                         *)
(* The argument: while the store is open its state is the one that was     *)
(* saved and tells how far the files are, except between the two durable   *)
(* writes of an operation, where the step says what the file is ahead by.  *)
(***************************************************************************)
EXTENDS ExperimentalTransfer, SequenceTheorems, TLAPS

-----------------------------------------------------------------------------
(* The inductive invariant.                                                *)

\* The committed file is exact, and then nothing is staged.
FilesInv ==
    /\ complete \in {<< >>, <<Representation>>}
    /\ complete # << >> => part = << >>

\* What the open store's state says is saved, and is true of the files.
HandleInv ==
    step # "closed" =>
        /\ saved = <<state>>
        /\ step \notin {"appended", "quarantined", "renamed"} =>
              IF complete = << >>
              THEN state.status # "Complete" /\ state.accepted = Len(Content(part))
              ELSE state.status = "Complete" /\ state.accepted = Size

\* Where a file is ahead of the state.
MidwayInv ==
    /\ step \in {"data", "append", "appended", "commit", "quarantined"} =>
          complete = << >>
    /\ step = "appended" =>
          Len(Content(part)) = state.accepted + Len(NewOctets(asked))
    /\ step = "quarantined" => part = << >>
    /\ step = "commit" => Content(part) = Representation
    /\ step = "renamed" => complete # << >>

\* Octets travel only after the offer, which no reopening forgets.
OfferInv ==
    step \in {"data", "append", "appended", "commit"} \/ sent # {} =>
        saved # << >> /\ "Offer" \in saved[1].phases

\* A capability phase is never open without its ceiling.
CeilingInv ==
    /\ step = "mark" => state.ceiling # NoCeiling
    /\ step # "closed" /\ state.phases \cap CapabilityFlags # {} =>
          state.ceiling # NoCeiling

\* Octets are useful only once they are committed and the state says so.
UsefulInv ==
    /\ UsefulOnce
    /\ complete = << >> \/ step = "renamed" => useful = 0

TransferInv ==
    /\ TypeOK
    /\ FilesInv
    /\ HandleInv
    /\ MidwayInv
    /\ OfferInv
    /\ CeilingInv
    /\ UsefulInv
    /\ ReceiptAfterCommit
    /\ RequestLeavesRoom

-----------------------------------------------------------------------------
(* Facts about the helpers.                                                *)

LEMMA RepresentationTyped ==
  /\ Representation \in Seq(0 .. Size)
  /\ Len(Representation) = Size
BY ContactsAssumption DEF Representation

LEMMA ContentTyped ==
  ASSUME NEW file \in Seq(Seq(0 .. Size))
  PROVE  Content(file) \in Seq(0 .. Size) /\ Len(Content(file)) \in Nat
BY DEF Content

LEMMA ContentOfFile ==
  ASSUME NEW content
  PROVE  Content(<<content>>) = content /\ <<content>> # << >>
BY DEF Content

\* The state a store is opened from.
LEMMA SavedTyped ==
  ASSUME TypeOK, saved # << >>
  PROVE  saved[1] \in StateType /\ saved = <<saved[1]>>
<1>1. saved \in Seq(StateType) /\ Len(saved) = 1
  <2>1. saved \in Seq(StateType) /\ Len(saved) <= 1
    BY DEF TypeOK
  <2>2. Len(saved) \in Nat \ {0}
    BY <2>1, EmptySeq
  <2>3. Len(saved) = 1
    <3> DEFINE n == Len(saved)
    <3>1. n <= 1 /\ n \in Nat \ {0}
      BY <2>1, <2>2
    <3> HIDE DEF n
    <3>2. n = 1
      BY <3>1
    <3> QED BY <3>2 DEF n
  <2> QED BY <2>1, <2>3
<1>2. saved[1] \in StateType
  BY <1>1, ElementOfSeq
<1>3. <<saved[1]>> \in Seq(StateType) /\ Len(<<saved[1]>>) = 1
  BY <1>2
<1>4. \A i \in 1 .. 1 : saved[i] = <<saved[1]>>[i]
  OBVIOUS
<1> QED BY <1>1, <1>2, <1>3, <1>4, SeqEqual

LEMMA RecordSizes ==
  /\ \A f \in Flags : RecordOctets[f] \in Nat
  /\ RequestOctets \in Nat
  /\ DataRecordOverhead \in Nat
BY DEF Flags, RecordOctets, RequestOctets, DataRecordOverhead

LEMMA ControlFlags == CapabilityFlags \subseteq Flags /\ DOMAIN Control \subseteq Flags
BY DEF CapabilityFlags, Control, Flags, RecordOctets

LEMMA ContactTyped ==
  ASSUME TypeOK
  PROVE  /\ contact.budget \in Nat /\ contact.limit \in Nat \ {0}
         /\ spent \in Nat
         /\ EffectiveRecordLimit \in Nat
         /\ AdvertisedRecordLimit \in Nat \ {0}
<1>1. contact.budget \in Nat /\ contact.limit \in Nat \ {0} /\ state.ceiling \in Nat
  BY ContactsAssumption DEF TypeOK, StateType
<1> QED
  BY <1>1 DEF TypeOK, EffectiveRecordLimit, AdvertisedRecordLimit, Smaller,
              MaxOperationRecordSize, U16Max

\* A record that is delivered is paid for.
LEMMA DeliveredWithinBudget ==
  ASSUME TypeOK, NEW octets \in Nat, Delivered(octets), contact' = contact
  PROVE  spent' \in 0 .. contact'.budget
BY ContactTyped DEF Delivered, Fits

\* mark adds a phase, and may note an offer.
LEMMA MarkedProperties ==
  ASSUME TypeOK, NEW f \in Flags
  PROVE  /\ Marked(f) \in StateType
         /\ Marked(f).phases = state.phases \cup {f}
         /\ Marked(f).ceiling = state.ceiling
         /\ Marked(f).accepted = state.accepted
         /\ Marked(f).status = "Complete" <=> state.status = "Complete"
<1>1. state \in StateType
  BY DEF TypeOK
<1>2. state.status \in Statuses
  BY <1>1 DEF StateType
<1>3. (IF f = "Offer" /\ state.status = "Empty" THEN "Offered" ELSE state.status)
        \in Statuses
  BY <1>2 DEF Statuses
<1> QED
  BY <1>1, <1>3 DEF Marked, StateType

\* What reopening makes of the saved state and the files.
LEMMA ReconciledProperties ==
  ASSUME TypeOK
  PROVE  /\ Reconciled \in StateType
         /\ IF complete = << >>
            THEN Reconciled.status # "Complete" /\ Reconciled.accepted = Len(Content(part))
            ELSE Reconciled.status = "Complete" /\ Reconciled.accepted = Size
         /\ Reconciled.phases \cap CapabilityFlags # {} => Reconciled.ceiling # NoCeiling
         /\ saved = << >> => Reconciled.phases = {}
         /\ saved # << >> => /\ Reconciled.phases \subseteq saved[1].phases
                            /\ saved[1].phases \ CapabilityFlags \subseteq Reconciled.phases
<1> DEFINE old == IF saved = << >> THEN Fresh ELSE saved[1]
           s == RepeatLegacyCapabilities(old)
           actual == Len(Content(part))
<1>1. old \in StateType
  <2>1. Fresh \in StateType
    BY ContactsAssumption DEF Fresh, StateType, Statuses, NoCeiling
  <2> QED BY <2>1, SavedTyped
<1>2. /\ s \in StateType
      /\ s.phases \subseteq old.phases
      /\ old.phases \ CapabilityFlags \subseteq s.phases
      /\ s.phases \cap CapabilityFlags # {} => s.ceiling # NoCeiling
  <2> HIDE DEF old
  <2>1. CASE old.ceiling = NoCeiling
    <3>1. s = [old EXCEPT !.phases = @ \ CapabilityFlags]
      BY <2>1 DEF RepeatLegacyCapabilities
    <3>2. s \in StateType /\ s.phases = old.phases \ CapabilityFlags
      BY <1>1, <3>1 DEF StateType
    <3> QED BY <3>2
  <2>2. CASE old.ceiling # NoCeiling
    BY <1>1, <2>2 DEF RepeatLegacyCapabilities
  <2> QED BY <2>1, <2>2
<1>3. actual \in 0 .. Size
  BY ContentTyped DEF TypeOK
<1>4. ReconciledStatus(s, actual) \in Statuses \ {"Complete"}
  BY DEF ReconciledStatus, Statuses
<1>5. Reconciled = IF complete # << >>
                   THEN [s EXCEPT !.status = "Complete", !.accepted = Size]
                   ELSE [s EXCEPT !.status = ReconciledStatus(s, actual),
                                  !.accepted = actual]
  BY DEF Reconciled
<1>6. Size \in 0 .. Size /\ "Complete" \in Statuses
  BY ContactsAssumption DEF Statuses
<1>7. /\ Reconciled \in StateType
      /\ Reconciled.phases = s.phases /\ Reconciled.ceiling = s.ceiling
      /\ complete # << >> => Reconciled.status = "Complete" /\ Reconciled.accepted = Size
      /\ complete = << >> => /\ Reconciled.status = ReconciledStatus(s, actual)
                            /\ Reconciled.accepted = actual
  <2> HIDE DEF s, actual
  <2> QED BY <1>2, <1>3, <1>4, <1>5, <1>6 DEF StateType
<1>8. Fresh.phases = {}
  BY DEF Fresh
<1> HIDE DEF s
<1> QED BY <1>2, <1>4, <1>7, <1>8

\* What accept_data appends: the octets of the record past those held.
LEMMA NewOctetsProperties ==
  ASSUME TypeOK, NEW d, AppendsTo(d),
         d.offset \in 0 .. Size, d.octets \in Seq(0 .. Size)
  PROVE  /\ NewOctets(d) \in Seq(0 .. Size)
         /\ Len(NewOctets(d)) = d.offset + Len(d.octets) - state.accepted
         /\ Len(NewOctets(d)) \in Nat \ {0}
<1> DEFINE first == state.accepted - d.offset + 1
<1>1. /\ d.offset \in Nat /\ d.octets \in Seq(0 .. Size) /\ Len(d.octets) \in Nat
      /\ state.accepted \in Nat
  BY ContactsAssumption DEF TypeOK, StateType
<1>2. first \in 1 .. Len(d.octets)
  BY <1>1 DEF AppendsTo
<1>3. \A i \in first .. Len(d.octets) : d.octets[i] \in 0 .. Size
  <2> TAKE i \in first .. Len(d.octets)
  <2>1. i \in 1 .. Len(d.octets)
    BY <1>1, <1>2
  <2> QED BY <1>1, <2>1, ElementOfSeq
<1>4. /\ SubSeq(d.octets, first, Len(d.octets)) \in Seq(0 .. Size)
      /\ Len(SubSeq(d.octets, first, Len(d.octets))) = Len(d.octets) - first + 1
  <2> HIDE DEF first
  <2> QED BY <1>1, <1>2, <1>3, SubSeqProperties
<1> QED BY <1>1, <1>2, <1>4 DEF NewOctets

\* The range a request asks for leaves room for the request and its answer.
LEMMA PayloadFits ==
  ASSUME TypeOK, PayloadLimit > 0
  PROVE  /\ PayloadLimit \in Nat
         /\ state.accepted + PayloadLimit <= Size
         /\ DataRecordOverhead + PayloadLimit <= EffectiveRecordLimit
         /\ DataRecordOverhead + PayloadLimit <= contact.budget - (spent + RequestOctets)
<1>1. state.accepted \in 0 .. Size /\ Size \in Nat
  BY ContactsAssumption DEF TypeOK, StateType
<1> QED
  BY <1>1, ContactTyped, RecordSizes DEF PayloadLimit, Smaller, Minus

\* While the store is open the state file holds its state.
LEMMA SavedIsState ==
  ASSUME HandleInv, step # "closed"
  PROVE  saved # << >> /\ saved[1] = state
BY DEF HandleInv

\* The record in flight.
LEMMA AskedTyped ==
  ASSUME TypeOK
  PROVE  /\ asked.offset \in 0 .. Size
         /\ asked.octets \in Seq(0 .. Size)
         /\ Len(asked.octets) \in Nat
         /\ asked.offset + Len(asked.octets) <= Size
BY DEF TypeOK, InsideRepresentation

\* The staging file, extended by all or a part of what a record adds.
LEMMA AppendedProperties ==
  ASSUME TypeOK, AppendsTo(asked), state.accepted = Len(Content(part)),
         NEW added \in Seq(0 .. Size),
         0 < Len(added), Len(added) <= Len(NewOctets(asked))
  PROVE  LET longer == Content(part) \o added IN
         /\ longer \in Seq(0 .. Size)
         /\ Len(longer) = Len(Content(part)) + Len(added)
         /\ Len(Content(part)) < Len(longer) /\ Len(longer) <= Size
         /\ SubSeq(longer, 1, Len(Content(part))) = Content(part)
<1> DEFINE held == Content(part)
           longer == held \o added
<1>1. held \in Seq(0 .. Size) /\ Len(held) \in Nat /\ Len(added) \in Nat
  BY ContentTyped DEF TypeOK
<1>2. /\ Len(NewOctets(asked)) = asked.offset + Len(asked.octets) - Len(held)
      /\ Len(held) + Len(NewOctets(asked)) <= Size
      /\ Len(NewOctets(asked)) \in Nat
  <2>1. /\ Len(NewOctets(asked)) = asked.offset + Len(asked.octets) - state.accepted
        /\ Len(NewOctets(asked)) \in Nat \ {0}
    BY AskedTyped, NewOctetsProperties
  <2>2. /\ asked.offset \in Nat /\ Len(asked.octets) \in Nat
        /\ asked.offset + Len(asked.octets) <= Size
    BY AskedTyped, ContactsAssumption
  <2> HIDE DEF held
  <2> QED BY <1>1, <2>1, <2>2, ContactsAssumption DEF held
<1> HIDE DEF held
<1>3. /\ longer \in Seq(0 .. Size)
      /\ Len(longer) = Len(held) + Len(added)
      /\ \A i \in 1 .. Len(held) : longer[i] = held[i]
  BY <1>1, ConcatProperties
<1>4. Len(held) < Len(longer) /\ Len(longer) <= Size
  <2> HIDE DEF longer
  <2> QED BY <1>1, <1>2, <1>3, ContactsAssumption
<1>5. SubSeq(longer, 1, Len(held)) = held
  <2> DEFINE first == SubSeq(longer, 1, Len(held))
  <2>1. \A i \in 1 .. Len(held) : longer[i] \in 0 .. Size
    BY <1>1, <1>3, ElementOfSeq
  <2> HIDE DEF longer
  <2>2. /\ first \in Seq(0 .. Size)
        /\ Len(first) = Len(held)
        /\ \A i \in 1 .. Len(held) : first[i] = longer[i]
    BY <1>1, <2>1, SubSeqProperties
  <2> HIDE DEF first
  <2>3. first = held
    BY <1>1, <1>3, <2>2, SeqEqual
  <2> QED BY <2>3 DEF first
<1> QED BY <1>3, <1>4, <1>5 DEF held

-----------------------------------------------------------------------------
(* The steps.  Each lemma: one action preserves the invariant.
   What an action leaves alone is cited by its definition.                 *)

\* FileStore::open and the start of a contact.
LEMMA OpenPreserves ==
  ASSUME TransferInv, NEW c \in Contacts, Open(c)
  PROVE  TransferInv'
<1> USE DEF TransferInv
<1>0. /\ saved' = <<Reconciled>> /\ state' = Reconciled
      /\ step' = "contact" /\ saved' # << >> /\ saved'[1] = Reconciled

  BY DEF Open, Save
<1>1. TypeOK'
  BY <1>0, ReconciledProperties, ContactsAssumption DEF TypeOK, Open, disk
<1>2. FilesInv' /\ ReceiptAfterCommit' /\ UsefulInv'
  BY <1>0, ReconciledProperties, SavedTyped DEF FilesInv, HandleInv,
     MidwayInv, ReceiptAfterCommit, UsefulInv, UsefulOnce, Open, disk
<1>3. HandleInv' /\ MidwayInv'
  BY <1>0, ReconciledProperties DEF HandleInv, MidwayInv, Open, disk
<1>4. OfferInv' /\ CeilingInv'
  BY <1>0, ReconciledProperties, SavedTyped DEF OfferInv, CeilingInv,
     HandleInv, Open, disk, CapabilityFlags
<1>5. RequestLeavesRoom'
  BY <1>0, ReconciledProperties DEF RequestLeavesRoom, Open, disk
<1> QED BY <1>1, <1>2, <1>3, <1>4, <1>5

\* persist_negotiated_max_record_size.
LEMMA ExchangeCapabilitiesPreserves ==
  ASSUME TransferInv, NEW f \in CapabilityFlags, ExchangeCapabilities(f)
  PROVE  TransferInv'
<1> USE DEF TransferInv
<1>0. /\ state' \in StateType /\ state'.ceiling # NoCeiling
      /\ state'.phases = state.phases /\ state'.accepted = state.accepted
      /\ state'.status = state.status
      /\ saved' = <<state'>> /\ saved' # << >> /\ saved'[1] = state'

  <2> DEFINE ceiling == IF state.ceiling = NoCeiling THEN AdvertisedRecordLimit
                        ELSE Smaller(state.ceiling, AdvertisedRecordLimit)
  <2>1. state \in StateType
    BY DEF TypeOK
  <2>2. state.ceiling \in Nat
    BY <2>1 DEF StateType
  <2>3. ceiling \in Nat \ {0}
    BY <2>2, ContactTyped DEF Smaller, NoCeiling
  <2>4. state' = [state EXCEPT !.ceiling = ceiling] /\ saved' = <<state'>>
    BY DEF ExchangeCapabilities, Save
  <2> HIDE DEF ceiling
  <2> QED BY <2>1, <2>3, <2>4 DEF StateType, NoCeiling
<1>1. TypeOK'
  BY <1>0, DeliveredWithinBudget, RecordSizes, ControlFlags DEF TypeOK,
     ExchangeCapabilities, disk
<1>2. FilesInv' /\ ReceiptAfterCommit' /\ UsefulInv'
  BY <1>0, SavedIsState DEF FilesInv, HandleInv, MidwayInv,
     ReceiptAfterCommit, UsefulInv, UsefulOnce, ExchangeCapabilities, disk
<1>3. HandleInv' /\ MidwayInv'
  BY <1>0 DEF HandleInv, MidwayInv, ExchangeCapabilities, disk
<1>4. OfferInv' /\ CeilingInv'
  BY <1>0 DEF OfferInv, CeilingInv, HandleInv, ExchangeCapabilities, disk
<1>5. RequestLeavesRoom'
  BY <1>0 DEF RequestLeavesRoom, ExchangeCapabilities, disk
<1> QED BY <1>1, <1>2, <1>3, <1>4, <1>5

\* The phase is noted, the second durable step.
LEMMA MarkCapabilitiesPreserves ==
  ASSUME TransferInv, MarkCapabilities
  PROVE  TransferInv'
<1> USE DEF TransferInv
<1>0. PICK f \in CapabilityFlags :
        /\ saved' = <<Marked(f)>> /\ saved' # << >> /\ saved'[1] = Marked(f)
        /\ state' = Marked(f) /\ step = "mark"

  BY DEF MarkCapabilities, Save
<1>1. TypeOK'
  BY <1>0, ControlFlags, MarkedProperties DEF TypeOK, MarkCapabilities, disk
<1>2. FilesInv' /\ ReceiptAfterCommit' /\ UsefulInv'
  <2>1. f # "Receipt"
    BY DEF CapabilityFlags
  <2> QED
    BY <1>0, <2>1, ControlFlags, MarkedProperties, SavedIsState
       DEF FilesInv, HandleInv, MidwayInv, ReceiptAfterCommit, UsefulInv,
           UsefulOnce, MarkCapabilities
<1>3. HandleInv' /\ MidwayInv'
  BY <1>0, ControlFlags, MarkedProperties DEF HandleInv, MidwayInv,
     MarkCapabilities, disk
<1>4. OfferInv' /\ CeilingInv'
  BY <1>0, ControlFlags, MarkedProperties DEF OfferInv, CeilingInv,
     HandleInv, MarkCapabilities, disk
<1>5. RequestLeavesRoom'
  BY <1>0, ControlFlags, MarkedProperties DEF RequestLeavesRoom,
     MarkCapabilities, disk
<1> QED BY <1>1, <1>2, <1>3, <1>4, <1>5

\* SUMMARY and OFFER.
LEMMA InformPreserves ==
  ASSUME TransferInv, NEW f \in DOMAIN Control, Inform(f)
  PROVE  TransferInv'
<1> USE DEF TransferInv
<1>0. /\ saved' = <<Marked(f)>> /\ saved' # << >> /\ saved'[1] = Marked(f)
      /\ state' = Marked(f) /\ step = "contact" /\ f # "Receipt"
      /\ f \notin CapabilityFlags

  BY DEF Inform, Save, Control
<1>1. TypeOK'
  BY <1>0, ControlFlags, MarkedProperties, DeliveredWithinBudget,
     RecordSizes DEF TypeOK, Inform, disk
<1>2. FilesInv' /\ ReceiptAfterCommit' /\ UsefulInv'
  BY <1>0, ControlFlags, MarkedProperties, SavedIsState DEF FilesInv,
     HandleInv, MidwayInv, ReceiptAfterCommit, UsefulInv, UsefulOnce,
     Inform, disk
<1>3. HandleInv' /\ MidwayInv'
  BY <1>0, ControlFlags, MarkedProperties DEF HandleInv, MidwayInv, Inform,
     disk
<1>4. OfferInv' /\ CeilingInv'
  BY <1>0, ControlFlags, MarkedProperties DEF OfferInv, CeilingInv,
     HandleInv, Inform, disk
<1>5. RequestLeavesRoom'
  BY <1>0, ControlFlags, MarkedProperties DEF RequestLeavesRoom, Inform,
     disk
<1> QED BY <1>1, <1>2, <1>3, <1>4, <1>5

\* A request, and the range it authorizes.
LEMMA RequestPreserves ==
  ASSUME TransferInv, Request
  PROVE  TransferInv'
<1> USE DEF TransferInv
<1>0. /\ asked'.offset = state.accepted /\ asked'.next = "closed"
      /\ asked'.octets \in Seq(0 .. Size) /\ Len(asked'.octets) = PayloadLimit
      /\ PayloadLimit > 0 /\ step = "contact" /\ step' = "data"
      /\ complete = << >> /\ "Offer" \in state.phases /\ Negotiated /\ ~IsComplete

  <2> DEFINE octet(i) == IF contact.exact THEN state.accepted + i ELSE 0
             octets == [i \in 1 .. PayloadLimit |-> octet(i)]
  <2>1. /\ PayloadLimit > 0 /\ Negotiated /\ ~IsComplete
        /\ asked' = [offset |-> state.accepted, octets |-> octets, next |-> "closed"]
        /\ step = "contact" /\ step' = "data"
    BY DEF Request
  <2>2. /\ PayloadLimit \in Nat /\ state.accepted + PayloadLimit <= Size
        /\ state.accepted \in Nat /\ Size \in Nat
    BY <2>1, PayloadFits, ContactsAssumption DEF TypeOK, StateType
  <2>3. \A i \in 1 .. PayloadLimit : octet(i) \in 0 .. Size
    <3> HIDE DEF octets
    <3> QED BY <2>2
  <2>4. octets \in Seq(0 .. Size) /\ Len(octets) = PayloadLimit
    <3> HIDE DEF octet
    <3> QED BY <2>2, <2>3
  <2>5. complete = << >>
    BY <2>1 DEF HandleInv, IsComplete
  <2>6. "Offer" \in state.phases
    BY <2>1 DEF Negotiated, Missing, Control
  <2> HIDE DEF octets
  <2> QED BY <2>1, <2>4, <2>5, <2>6
<1>1. TypeOK'
  <2>1. asked'.offset + Len(asked'.octets) <= Size /\ asked'.offset \in 0 .. Size
    <3>1. state.accepted \in 0 .. Size /\ Size \in Nat
      BY ContactsAssumption DEF TypeOK, StateType
    <3> QED BY <1>0, <3>1, PayloadFits
  <2> QED
    BY <1>0, <2>1, DeliveredWithinBudget, RecordSizes
       DEF TypeOK, Request, disk, InsideRepresentation
<1>2. FilesInv' /\ ReceiptAfterCommit' /\ UsefulInv'
  BY <1>0 DEF FilesInv, HandleInv, MidwayInv, ReceiptAfterCommit, UsefulInv,
     UsefulOnce, Request, disk
<1>3. HandleInv' /\ MidwayInv'
  BY <1>0 DEF HandleInv, MidwayInv, Request, disk
<1>4. OfferInv' /\ CeilingInv'
  BY <1>0, SavedIsState DEF OfferInv, CeilingInv, HandleInv, Request, disk
<1>5. RequestLeavesRoom'
  <2>1. /\ DataRecordOverhead + PayloadLimit <= EffectiveRecordLimit
        /\ DataRecordOverhead + PayloadLimit <= contact.budget - (spent + RequestOctets)
    BY <1>0, PayloadFits
  <2>2. EffectiveRecordLimit' = EffectiveRecordLimit
    BY DEF Request, EffectiveRecordLimit
  <2>3. contact' = contact /\ spent' = spent + RequestOctets
    BY DEF Request, Delivered
  <2> QED BY <1>0, <2>1, <2>2, <2>3 DEF RequestLeavesRoom, Fits
<1> QED BY <1>1, <1>2, <1>3, <1>4, <1>5

\* The DATA record is on its way.
LEMMA SendDataPreserves ==
  ASSUME TransferInv, SendData
  PROVE  TransferInv'
<1> USE DEF TransferInv
<1>0. saved # << >> /\ saved[1] = state

  BY SavedIsState DEF SendData
<1>1. TypeOK'
  <2>1. asked.octets \in Seq(0 .. Size) /\ Len(asked.octets) \in Nat
    BY AskedTyped
  <2>2. spent' \in 0 .. contact'.budget
    <3> DEFINE octets == DataRecordOverhead + Len(asked.octets)
    <3>1. octets \in Nat /\ Delivered(octets) /\ contact' = contact
      BY <2>1, RecordSizes DEF SendData
    <3> HIDE DEF octets
    <3> QED BY <3>1, DeliveredWithinBudget
  <2> QED
    BY <2>2 DEF TypeOK, SendData, disk, InsideRepresentation
<1>2. FilesInv' /\ ReceiptAfterCommit' /\ UsefulInv'
  BY <1>0 DEF FilesInv, HandleInv, MidwayInv, ReceiptAfterCommit, UsefulInv,
     UsefulOnce, SendData, disk
<1>3. HandleInv' /\ MidwayInv'
  BY <1>0 DEF HandleInv, MidwayInv, SendData, disk
<1>4. OfferInv' /\ CeilingInv'
  BY <1>0 DEF OfferInv, CeilingInv, HandleInv, SendData, disk
<1>5. RequestLeavesRoom'
  BY <1>0 DEF RequestLeavesRoom, SendData, disk
<1> QED BY <1>1, <1>2, <1>3, <1>4, <1>5

\* The receipt of committed octets.
LEMMA SendReceiptPreserves ==
  ASSUME TransferInv, SendReceipt
  PROVE  TransferInv'
<1> USE DEF TransferInv
<1>0. /\ saved' = <<Marked("Receipt")>> /\ saved' # << >>
      /\ saved'[1] = Marked("Receipt") /\ state' = Marked("Receipt")
      /\ step = "contact" /\ step' = "closed" /\ complete # << >>
      /\ "Receipt" \in Flags

  BY DEF SendReceipt, Save, ReceiptDue, IsComplete, Flags, RecordOctets
<1>1. TypeOK'
  BY <1>0, MarkedProperties, DeliveredWithinBudget, RecordSizes DEF TypeOK,
     SendReceipt, disk
<1>2. FilesInv' /\ ReceiptAfterCommit' /\ UsefulInv'
  BY <1>0, MarkedProperties DEF FilesInv, HandleInv, MidwayInv,
     ReceiptAfterCommit, UsefulInv, UsefulOnce, SendReceipt, disk
<1>3. HandleInv' /\ MidwayInv'
  BY <1>0, MarkedProperties DEF HandleInv, MidwayInv, SendReceipt, disk
<1>4. OfferInv' /\ CeilingInv'
  BY <1>0, MarkedProperties, SavedIsState DEF OfferInv, CeilingInv,
     HandleInv, SendReceipt, disk
<1>5. RequestLeavesRoom'
  BY <1>0, MarkedProperties DEF RequestLeavesRoom, SendReceipt, disk
<1> QED BY <1>1, <1>2, <1>3, <1>4, <1>5

\* The octets are appended and synced.
LEMMA AppendSuffixPreserves ==
  ASSUME TransferInv, AppendSuffix
  PROVE  TransferInv'
<1> USE DEF TransferInv
<1>0. /\ part' = <<Content(part) \o NewOctets(asked)>>
      /\ Content(part) \o NewOctets(asked) \in Seq(0 .. Size)
      /\ Len(Content(part) \o NewOctets(asked)) = state.accepted + Len(NewOctets(asked))
      /\ Len(Content(part) \o NewOctets(asked)) <= Size
      /\ NewOctets(asked)' = NewOctets(asked)
      /\ complete = << >>

  <2>1. AppendsTo(asked) /\ step = "append" /\ state' = state /\ asked' = asked
        /\ part' = <<Content(part) \o NewOctets(asked)>>
    BY DEF AppendSuffix
  <2>2. complete = << >> /\ state.accepted = Len(Content(part))
    BY <2>1 DEF MidwayInv, HandleInv
  <2>3. /\ NewOctets(asked) \in Seq(0 .. Size)
        /\ Len(NewOctets(asked)) \in Nat \ {0}
    BY <2>1, AskedTyped, NewOctetsProperties
  <2>4. NewOctets(asked)' = NewOctets(asked)
    BY <2>1 DEF NewOctets
  <2> QED BY <2>1, <2>2, <2>3, <2>4, AppendedProperties
<1>1. TypeOK'
  <2> DEFINE longer == Content(part) \o NewOctets(asked)
  <2>1. <<longer>> \in Seq(Seq(0 .. Size)) /\ Len(<<longer>>) <= 1 /\ Content(<<longer>>) = longer
    <3> HIDE DEF longer
    <3>1. ASSUME longer \in Seq(0 .. Size)
          PROVE  <<longer>> \in Seq(Seq(0 .. Size))
      BY <3>1
    <3> QED BY <1>0, <3>1, ContentOfFile DEF longer
  <2>2. longer \in Seq(0 .. Size) /\ Len(longer) <= Size /\ part' = <<longer>>
    BY <1>0
  <2> HIDE DEF longer
  <2> QED BY <2>1, <2>2 DEF TypeOK, AppendSuffix, disk
<1>2. FilesInv' /\ ReceiptAfterCommit' /\ UsefulInv'
  BY <1>0, ContentOfFile DEF FilesInv, HandleInv, MidwayInv,
     ReceiptAfterCommit, UsefulInv, UsefulOnce, AppendSuffix, disk
<1>3. HandleInv' /\ MidwayInv'
  <2> DEFINE longer == Content(part) \o NewOctets(asked)
  <2>1. Content(part') = longer
    BY <1>0, ContentOfFile
  <2> HIDE DEF longer
  <2> QED BY <1>0, <2>1 DEF longer, HandleInv, MidwayInv, AppendSuffix
<1>4. OfferInv' /\ CeilingInv'
  BY <1>0, ContentOfFile, SavedIsState DEF OfferInv, CeilingInv, HandleInv,
     AppendSuffix, disk
<1>5. RequestLeavesRoom'
  BY <1>0, ContentOfFile DEF RequestLeavesRoom, AppendSuffix, disk
<1> QED BY <1>1, <1>2, <1>3, <1>4, <1>5

\* The longer prefix is saved.
LEMMA SaveAppendPreserves ==
  ASSUME TransferInv, SaveAppend
  PROVE  TransferInv'
<1> USE DEF TransferInv
<1>0. /\ state' \in StateType /\ saved' = <<state'>> /\ saved' # << >> /\ saved'[1] = state'
      /\ state'.phases = state.phases /\ state'.ceiling = state.ceiling
      /\ state'.accepted = Len(Content(part)) /\ state'.status # "Complete"
      /\ step = "appended" /\ step' \in {"contact", "closed"}
      /\ part' = part /\ complete' = complete /\ complete = << >>

  <2> DEFINE accepted == state.accepted + Len(NewOctets(asked))
             status == IF accepted = Size THEN "CompleteUnverified" ELSE "Partial"
  <2>1. /\ step = "appended" /\ part' = part /\ complete' = complete
        /\ state' = [state EXCEPT !.accepted = accepted, !.status = status]
        /\ saved' = <<state'>>
        /\ step' = IF accepted = Size THEN "contact" ELSE asked.next
    BY DEF SaveAppend, Save
  <2>2. accepted = Len(Content(part)) /\ complete = << >>
    BY <2>1 DEF MidwayInv
  <2>3. accepted \in 0 .. Size
    BY <2>2, ContentTyped DEF TypeOK
  <2>4. status \in Statuses \ {"Complete"}
    BY DEF Statuses
  <2>5. state \in StateType /\ asked.next \in {"contact", "closed"}
    BY DEF TypeOK
  <2> HIDE DEF accepted, status
  <2> QED BY <2>1, <2>2, <2>3, <2>4, <2>5 DEF StateType
<1>1. TypeOK'
  BY <1>0 DEF TypeOK, SaveAppend, disk
<1>2. FilesInv' /\ ReceiptAfterCommit' /\ UsefulInv'
  BY <1>0, SavedIsState DEF FilesInv, HandleInv, MidwayInv,
     ReceiptAfterCommit, UsefulInv, UsefulOnce, SaveAppend, disk
<1>3. HandleInv' /\ MidwayInv'
  BY <1>0 DEF HandleInv, MidwayInv, SaveAppend, disk
<1>4. OfferInv' /\ CeilingInv'
  BY <1>0, SavedIsState DEF OfferInv, CeilingInv, HandleInv, SaveAppend,
     disk
<1>5. RequestLeavesRoom'
  BY <1>0 DEF RequestLeavesRoom, SaveAppend, disk
<1> QED BY <1>1, <1>2, <1>3, <1>4, <1>5

\* An earlier DATA record arrives again.
LEMMA RedeliverPreserves ==
  ASSUME TransferInv, NEW d \in sent, Redeliver(d)
  PROVE  TransferInv'
<1> USE DEF TransferInv
<1>0. /\ asked'.offset = d.offset /\ asked'.octets = d.octets /\ asked'.next = "contact"
      /\ InsideRepresentation(d) /\ InsideRepresentation(asked')
      /\ step = "contact" /\ step' = "append"
      /\ complete = << >>

  <2>1. InsideRepresentation(d)
    BY DEF TypeOK
  <2>2. step = "contact" /\ step' = "append" /\ ~IsComplete
        /\ asked' = [offset |-> d.offset, octets |-> d.octets, next |-> "contact"]
    BY DEF Redeliver, AppendsTo
  <2>3. complete = << >>
    BY <2>2 DEF HandleInv, IsComplete
  <2> QED BY <2>1, <2>2, <2>3 DEF InsideRepresentation
<1>1. TypeOK'
  BY <1>0, ContactsAssumption DEF TypeOK, Redeliver, disk
<1>2. FilesInv' /\ ReceiptAfterCommit' /\ UsefulInv'
  BY <1>0 DEF FilesInv, HandleInv, MidwayInv, ReceiptAfterCommit, UsefulInv,
     UsefulOnce, Redeliver, disk
<1>3. HandleInv' /\ MidwayInv'
  BY <1>0 DEF HandleInv, MidwayInv, Redeliver, disk
<1>4. OfferInv' /\ CeilingInv'
  BY <1>0, SavedIsState DEF OfferInv, CeilingInv, HandleInv, Redeliver, disk
<1>5. RequestLeavesRoom'
  BY <1>0 DEF RequestLeavesRoom, Redeliver, disk
<1> QED BY <1>1, <1>2, <1>3, <1>4, <1>5

\* The candidate is read again and accepted.
LEMMA VerifyStagedPreserves ==
  ASSUME TransferInv, VerifyStaged
  PROVE  TransferInv'
<1> USE DEF TransferInv
<1>0. /\ state' \in StateType /\ saved' = <<state'>> /\ saved' # << >> /\ saved'[1] = state'
      /\ state'.phases = state.phases /\ state'.ceiling = state.ceiling
      /\ state'.accepted = state.accepted /\ state'.status # "Complete"
      /\ step = "contact" /\ step' = "commit" /\ "Offer" \in state.phases
      /\ part' = part /\ complete' = complete /\ complete = << >>
      /\ Content(part) = Representation

  <2>1. /\ step = "contact" /\ step' = "commit" /\ part' = part /\ complete' = complete
        /\ Negotiated /\ ~IsComplete
        /\ state' = [state EXCEPT !.status = "Verified"] /\ saved' = <<state'>>
        /\ Exact(IF complete # << >> THEN complete[1] ELSE Content(part))
    BY DEF VerifyStaged, Save, MayVerify
  <2>2. complete = << >>
    BY <2>1 DEF HandleInv, IsComplete
  <2>3. Content(part) = Representation
    BY <2>1, <2>2 DEF Exact
  <2>4. "Offer" \in state.phases
    BY <2>1 DEF Negotiated, Missing, Control
  <2>5. state \in StateType /\ "Verified" \in Statuses
    BY DEF TypeOK, Statuses
  <2> QED BY <2>1, <2>2, <2>3, <2>4, <2>5 DEF StateType
<1>1. TypeOK'
  BY <1>0 DEF TypeOK, VerifyStaged, disk
<1>2. FilesInv' /\ ReceiptAfterCommit' /\ UsefulInv'
  BY <1>0, SavedIsState DEF FilesInv, HandleInv, MidwayInv,
     ReceiptAfterCommit, UsefulInv, UsefulOnce, VerifyStaged, disk
<1>3. HandleInv' /\ MidwayInv'
  BY <1>0 DEF HandleInv, MidwayInv, VerifyStaged, disk
<1>4. OfferInv' /\ CeilingInv'
  BY <1>0, SavedIsState DEF OfferInv, CeilingInv, HandleInv, VerifyStaged,
     disk
<1>5. RequestLeavesRoom'
  BY <1>0 DEF RequestLeavesRoom, VerifyStaged, disk
<1> QED BY <1>1, <1>2, <1>3, <1>4, <1>5

\* A candidate that is wrong is put aside.
LEMMA QuarantinePreserves ==
  ASSUME TransferInv, Quarantine
  PROVE  TransferInv'
<1> USE DEF TransferInv
<1>0. step = "contact" /\ step' = "quarantined" /\ complete = << >> /\ part' = << >>
      /\ Content(<< >>) = << >> /\ Len(<< >>) = 0

  BY DEF Quarantine, MayVerify, HandleInv, IsComplete, Content
<1>1. TypeOK'
  BY <1>0, ContactsAssumption DEF TypeOK, Quarantine, disk
<1>2. FilesInv' /\ ReceiptAfterCommit' /\ UsefulInv'
  BY <1>0 DEF FilesInv, HandleInv, MidwayInv, ReceiptAfterCommit, UsefulInv,
     UsefulOnce, Quarantine, disk
<1>3. HandleInv' /\ MidwayInv'
  BY <1>0 DEF HandleInv, MidwayInv, Quarantine, disk
<1>4. OfferInv' /\ CeilingInv'
  BY <1>0, SavedIsState DEF OfferInv, CeilingInv, HandleInv, Quarantine,
     disk
<1>5. RequestLeavesRoom'
  BY <1>0 DEF RequestLeavesRoom, Quarantine, disk
<1> QED BY <1>1, <1>2, <1>3, <1>4, <1>5

\* Its state is saved.
LEMMA SaveQuarantinePreserves ==
  ASSUME TransferInv, SaveQuarantine
  PROVE  TransferInv'
<1> USE DEF TransferInv
<1>0. /\ state' \in StateType /\ saved' = <<state'>> /\ saved' # << >> /\ saved'[1] = state'
      /\ state'.phases = state.phases \ {"Receipt"}
      /\ step = "quarantined" /\ step' = "closed" /\ complete = << >>

  <2>1. state \in StateType /\ "Offered" \in Statuses /\ 0 \in 0 .. Size
    BY ContactsAssumption DEF TypeOK, Statuses
  <2>2. /\ state' = [state EXCEPT !.accepted = 0, !.status = "Offered",
                              !.phases = @ \ {"Receipt"}]
        /\ saved' = <<state'>> /\ step = "quarantined" /\ step' = "closed"
    BY DEF SaveQuarantine, Save
  <2> QED BY <2>1, <2>2 DEF StateType, MidwayInv
<1>1. TypeOK'
  BY <1>0 DEF TypeOK, SaveQuarantine, disk
<1>2. FilesInv' /\ ReceiptAfterCommit' /\ UsefulInv'
  BY <1>0 DEF FilesInv, HandleInv, MidwayInv, ReceiptAfterCommit, UsefulInv,
     UsefulOnce, SaveQuarantine, disk
<1>3. HandleInv' /\ MidwayInv'
  BY <1>0 DEF HandleInv, MidwayInv, SaveQuarantine, disk
<1>4. OfferInv' /\ CeilingInv'
  BY <1>0, SavedIsState DEF OfferInv, CeilingInv, HandleInv, SaveQuarantine,
     disk
<1>5. RequestLeavesRoom'
  BY <1>0 DEF RequestLeavesRoom, SaveQuarantine, disk
<1> QED BY <1>1, <1>2, <1>3, <1>4, <1>5

\* The rename.
LEMMA CommitPreserves ==
  ASSUME TransferInv, Commit
  PROVE  TransferInv'
<1> USE DEF TransferInv
<1>0. /\ step = "commit" /\ step' = "renamed" /\ part' = << >> /\ complete = << >>
      /\ complete' = <<Representation>> /\ complete' # << >> /\ complete'[1] = Representation
      /\ Content(<< >>) = << >> /\ Len(<< >>) = 0
      /\ Representation \in Seq(0 .. Size)

  BY RepresentationTyped DEF Commit, MidwayInv, Content
<1>1. TypeOK'
  BY <1>0, ContactsAssumption DEF TypeOK, Commit, disk
<1>2. FilesInv' /\ ReceiptAfterCommit' /\ UsefulInv'
  BY <1>0, SavedIsState DEF FilesInv, HandleInv, MidwayInv,
     ReceiptAfterCommit, UsefulInv, UsefulOnce, Commit, disk
<1>3. HandleInv' /\ MidwayInv'
  BY <1>0 DEF HandleInv, MidwayInv, Commit, disk
<1>4. OfferInv' /\ CeilingInv'
  BY <1>0, SavedIsState DEF OfferInv, CeilingInv, HandleInv, Commit, disk
<1>5. RequestLeavesRoom'
  BY <1>0 DEF RequestLeavesRoom, Commit, disk
<1> QED BY <1>1, <1>2, <1>3, <1>4, <1>5

\* The state says so.
LEMMA SaveCommitPreserves ==
  ASSUME TransferInv, SaveCommit
  PROVE  TransferInv'
<1> USE DEF TransferInv
<1>0. /\ state' \in StateType /\ saved' = <<state'>> /\ saved' # << >> /\ saved'[1] = state'
      /\ state'.phases = state.phases /\ state'.ceiling = state.ceiling
      /\ state'.accepted = Size /\ state'.status = "Complete"
      /\ step = "renamed" /\ step' = "contact" /\ complete # << >>
      /\ complete' = complete /\ part' = part /\ Size \in Nat

  <2>1. state \in StateType /\ "Complete" \in Statuses /\ Size \in 0 .. Size /\ Size \in Nat
    BY ContactsAssumption DEF TypeOK, Statuses
  <2>2. /\ state' = [state EXCEPT !.accepted = Size, !.status = "Complete"]
        /\ saved' = <<state'>> /\ step = "renamed" /\ step' = "contact"
        /\ complete' = complete /\ part' = part
    BY DEF SaveCommit, Save
  <2> QED BY <2>1, <2>2 DEF StateType, MidwayInv
<1>1. TypeOK'
  BY <1>0 DEF TypeOK, SaveCommit, disk
<1>2. FilesInv' /\ ReceiptAfterCommit' /\ UsefulInv'
  BY <1>0, SavedIsState DEF FilesInv, HandleInv, MidwayInv,
     ReceiptAfterCommit, UsefulInv, UsefulOnce, SaveCommit, disk
<1>3. HandleInv' /\ MidwayInv'
  BY <1>0 DEF HandleInv, MidwayInv, SaveCommit, disk
<1>4. OfferInv' /\ CeilingInv'
  BY <1>0, SavedIsState DEF OfferInv, CeilingInv, HandleInv, SaveCommit,
     disk
<1>5. RequestLeavesRoom'
  BY <1>0 DEF RequestLeavesRoom, SaveCommit, disk
<1> QED BY <1>1, <1>2, <1>3, <1>4, <1>5

\* The contact ends.
LEMMA EndContactPreserves ==
  ASSUME TransferInv, EndContact
  PROVE  TransferInv'
<1> USE DEF TransferInv
<1>1. TypeOK'
  BY DEF TypeOK, EndContact, disk
<1>2. FilesInv' /\ ReceiptAfterCommit' /\ UsefulInv'
  BY DEF FilesInv, HandleInv, MidwayInv, ReceiptAfterCommit, UsefulInv,
     UsefulOnce, EndContact, disk
<1>3. HandleInv' /\ MidwayInv'
  BY DEF HandleInv, MidwayInv, EndContact, disk
<1>4. OfferInv' /\ CeilingInv'
  BY DEF OfferInv, CeilingInv, HandleInv, EndContact, disk
<1>5. RequestLeavesRoom'
  BY DEF RequestLeavesRoom, EndContact, disk
<1> QED BY <1>1, <1>2, <1>3, <1>4, <1>5

\* The process stops.
LEMMA CrashPreserves ==
  ASSUME TransferInv, Crash
  PROVE  TransferInv'
<1> USE DEF TransferInv
<1>1. TypeOK'
  BY ContactsAssumption DEF TypeOK, Crash, disk
<1>2. FilesInv' /\ ReceiptAfterCommit' /\ UsefulInv'
  BY DEF FilesInv, HandleInv, MidwayInv, ReceiptAfterCommit, UsefulInv,
     UsefulOnce, Crash, disk
<1>3. HandleInv' /\ MidwayInv'
  BY DEF HandleInv, MidwayInv, Crash, disk
<1>4. OfferInv' /\ CeilingInv'
  BY DEF OfferInv, CeilingInv, HandleInv, Crash, disk
<1>5. RequestLeavesRoom'
  BY DEF RequestLeavesRoom, Crash, disk
<1> QED BY <1>1, <1>2, <1>3, <1>4, <1>5

\* The process stops inside the append.
LEMMA TornAppendPreserves ==
  ASSUME TransferInv, TornAppend
  PROVE  TransferInv'
<1> USE DEF TransferInv
<1>0. PICK added \in Seq(0 .. Size) :
        /\ part' = <<Content(part) \o added>>
        /\ Content(part) \o added \in Seq(0 .. Size)
        /\ Len(Content(part) \o added) <= Size
        /\ step' = "closed" /\ step = "append" /\ complete = << >>

  <2> DEFINE part_of(n) == SubSeq(NewOctets(asked), 1, n)
  <2>1. AppendsTo(asked) /\ step = "append" /\ step' = "closed"
    BY DEF TornAppend
  <2>2. complete = << >> /\ state.accepted = Len(Content(part))
    BY <2>1 DEF MidwayInv, HandleInv
  <2>3. /\ NewOctets(asked) \in Seq(0 .. Size)
        /\ Len(NewOctets(asked)) \in Nat \ {0}
    BY <2>1, AskedTyped, NewOctetsProperties
  <2>4. PICK n \in 1 .. (Len(NewOctets(asked)) - 1) :
            part' = <<Content(part) \o part_of(n)>>
    BY DEF TornAppend
  <2>5. part_of(n) \in Seq(0 .. Size) /\ Len(part_of(n)) = n
    <3>1. \A i \in 1 .. n : NewOctets(asked)[i] \in 0 .. Size
      <4> TAKE i \in 1 .. n
      <4>1. i \in 1 .. Len(NewOctets(asked))
        BY <2>3
      <4> QED BY <2>3, <4>1, ElementOfSeq
    <3> HIDE DEF part_of
    <3>2. n \in Nat /\ 1 \in Int /\ n \in Int /\ 1 <= n
      BY <2>3
    <3> QED BY <3>1, <3>2, SubSeqProperties DEF part_of
  <2> HIDE DEF part_of
  <2> QED BY <2>1, <2>2, <2>3, <2>4, <2>5, AppendedProperties
<1>1. TypeOK'
  <2> DEFINE longer == Content(part) \o added
  <2>1. <<longer>> \in Seq(Seq(0 .. Size)) /\ Len(<<longer>>) <= 1 /\ Content(<<longer>>) = longer
    <3> HIDE DEF longer
    <3>1. ASSUME longer \in Seq(0 .. Size)
          PROVE  <<longer>> \in Seq(Seq(0 .. Size))
      BY <3>1
    <3> QED BY <1>0, <3>1, ContentOfFile DEF longer
  <2>2. longer \in Seq(0 .. Size) /\ Len(longer) <= Size /\ part' = <<longer>>
    BY <1>0
  <2> HIDE DEF longer
  <2>3. faults' \in 0 .. MaxFaults
    BY ContactsAssumption DEF TypeOK, TornAppend
  <2>4. /\ complete' = complete /\ saved' = saved /\ state' = state /\ step' = "closed"
        /\ contact' = contact /\ spent' = spent /\ asked' = asked /\ sent' = sent
        /\ useful' = useful
    BY DEF TornAppend
  <2> QED BY <2>1, <2>2, <2>3, <2>4 DEF TypeOK
<1>2. FilesInv' /\ ReceiptAfterCommit' /\ UsefulInv'
  BY <1>0, ContentOfFile DEF FilesInv, HandleInv, MidwayInv,
     ReceiptAfterCommit, UsefulInv, UsefulOnce, TornAppend, disk
<1>3. HandleInv' /\ MidwayInv'
  BY <1>0, ContentOfFile DEF HandleInv, MidwayInv, TornAppend, disk
<1>4. OfferInv' /\ CeilingInv'
  BY <1>0, ContentOfFile, SavedIsState DEF OfferInv, CeilingInv, HandleInv,
     TornAppend, disk
<1>5. RequestLeavesRoom'
  BY <1>0, ContentOfFile DEF RequestLeavesRoom, TornAppend, disk
<1> QED BY <1>1, <1>2, <1>3, <1>4, <1>5

-----------------------------------------------------------------------------
(* The theorems.                                                           *)

\* The inductive invariant holds in every reachable state.
THEOREM TransferInvariant == Spec => []TransferInv
<1>1. Init => TransferInv
  <2> SUFFICES ASSUME Init
               PROVE  TransferInv
    OBVIOUS
  <2> USE DEF Init
  <2>1. Fresh \in StateType /\ Legacy \in StateType
    <3>1. Fresh \in StateType
      BY ContactsAssumption DEF Fresh, StateType, Statuses, NoCeiling
    <3> QED BY <3>1 DEF Legacy, StateType, CapabilityFlags, Flags, RecordOctets
  <2>2. Len(Content(part)) = 0
    BY DEF Content
  <2>3. InsideRepresentation(asked) /\ asked.next = "closed"
    BY ContactsAssumption DEF NothingAsked, InsideRepresentation
  <2>4. spent \in 0 .. contact.budget /\ faults \in 0 .. MaxFaults
    BY ContactsAssumption
  <2>5. saved \in Seq(StateType) /\ Len(saved) <= 1
    <3>1. <<Legacy>> \in Seq(StateType) /\ Len(<<Legacy>>) = 1
      BY <2>1
    <3>2. << >> \in Seq(StateType) /\ Len(<< >>) = 0
      OBVIOUS
    <3>3. saved = << >> \/ saved = <<Legacy>>
      OBVIOUS
    <3>4. CASE saved = << >>
      BY <3>2, <3>4
    <3>5. CASE saved = <<Legacy>>
      <4>1. saved \in Seq(StateType)
        BY <3>1, <3>5, Zenon
      <4>2. Len(saved) = 1
        BY <3>1, <3>5, Zenon
      <4> QED BY <4>1, <4>2
    <3> QED BY <3>3, <3>4, <3>5
  <2>6. TypeOK
    BY <2>1, <2>2, <2>3, <2>4, <2>5, ContactsAssumption DEF TypeOK
  <2>7. FilesInv /\ HandleInv /\ MidwayInv /\ OfferInv
    BY DEF FilesInv, HandleInv, MidwayInv, OfferInv
  <2>8. CeilingInv /\ UsefulInv /\ RequestLeavesRoom
    BY ContactsAssumption DEF CeilingInv, UsefulInv, UsefulOnce, RequestLeavesRoom
  <2>9. ReceiptAfterCommit
    <3>1. Legacy.phases = CapabilityFlags
      BY DEF Legacy, Fresh
    <3>2. saved # << >> => saved[1] = Legacy
      OBVIOUS
    <3> QED BY <3>1, <3>2 DEF ReceiptAfterCommit, CapabilityFlags
  <2> QED BY <2>6, <2>7, <2>8, <2>9 DEF TransferInv
<1>2. TransferInv /\ [Next]_vars => TransferInv'
  <2> SUFFICES ASSUME TransferInv, [Next]_vars
               PROVE  TransferInv'
    OBVIOUS
  <2>1. CASE \E c \in Contacts : Open(c)
    BY <2>1, OpenPreserves
  <2>2. CASE Proceed
    <3>1. CASE \E f \in CapabilityFlags : ExchangeCapabilities(f)
      BY <3>1, ExchangeCapabilitiesPreserves
    <3>2. CASE MarkCapabilities
      BY <3>2, MarkCapabilitiesPreserves
    <3>3. CASE \E f \in DOMAIN Control : Inform(f)
      BY <3>3, InformPreserves
    <3>4. CASE Request
      BY <3>4, RequestPreserves
    <3>5. CASE SendData
      BY <3>5, SendDataPreserves
    <3>6. CASE SendReceipt
      BY <3>6, SendReceiptPreserves
    <3>7. CASE AppendSuffix
      BY <3>7, AppendSuffixPreserves
    <3>8. CASE SaveAppend
      BY <3>8, SaveAppendPreserves
    <3>9. CASE VerifyStaged
      BY <3>9, VerifyStagedPreserves
    <3>10. CASE Quarantine
      BY <3>10, QuarantinePreserves
    <3>11. CASE SaveQuarantine
      BY <3>11, SaveQuarantinePreserves
    <3>12. CASE Commit
      BY <3>12, CommitPreserves
    <3>13. CASE SaveCommit
      BY <3>13, SaveCommitPreserves
    <3>14. CASE EndContact
      BY <3>14, EndContactPreserves
    <3> QED
      BY <2>2, <3>1, <3>2, <3>3, <3>4, <3>5, <3>6, <3>7, <3>8, <3>9, <3>10,
         <3>11, <3>12, <3>13, <3>14 DEF Proceed
  <2>3. CASE \E d \in sent : Redeliver(d)
    BY <2>3, RedeliverPreserves
  <2>4. CASE Crash
    BY <2>4, CrashPreserves
  <2>5. CASE TornAppend
    BY <2>5, TornAppendPreserves
  <2>6. CASE UNCHANGED vars
    <3> USE <2>6 DEF vars, disk
    <3>1. TypeOK'
      BY DEF TransferInv, TypeOK
    <3>2. FilesInv' /\ HandleInv' /\ ReceiptAfterCommit' /\ OfferInv'
      BY DEF TransferInv, FilesInv, HandleInv, ReceiptAfterCommit, OfferInv
    <3>3. NewOctets(asked)' = NewOctets(asked)
      BY DEF NewOctets
    <3>4. MidwayInv'
      BY <3>3 DEF TransferInv, MidwayInv
    <3>5. CeilingInv' /\ UsefulInv'
      BY DEF TransferInv, CeilingInv, UsefulInv, UsefulOnce
    <3>6. RequestLeavesRoom'
      BY DEF TransferInv, RequestLeavesRoom, Fits, EffectiveRecordLimit
    <3> QED BY <3>1, <3>2, <3>4, <3>5, <3>6 DEF TransferInv
  <2> QED BY <2>1, <2>2, <2>3, <2>4, <2>5, <2>6 DEF Next
<1> QED BY <1>1, <1>2, PTL DEF Spec

\* Every variable keeps its type; the staging file and every record in flight
\* end inside the representation.
THEOREM TransferTyped == Spec => []TypeOK
<1>1. TransferInv => TypeOK
  BY DEF TransferInv
<1> QED BY <1>1, TransferInvariant, PTL

\* The application is told "stored" only of committed, exact octets.
THEOREM ReceiptImpliesCommit == Spec => []ReceiptAfterCommit
<1>1. TransferInv => ReceiptAfterCommit
  BY DEF TransferInv
<1> QED BY <1>1, TransferInvariant, PTL

\* Octets are useful at most once over all contacts.
THEOREM UsefulAtMostOnce == Spec => []UsefulOnce
<1>1. TransferInv => UsefulOnce
  BY DEF TransferInv, UsefulInv
<1> QED BY <1>1, TransferInvariant, PTL

\* The answer to a request fits the ceiling and the budget that are left.
THEOREM RequestedDataFits == Spec => []RequestLeavesRoom
<1>1. TransferInv => RequestLeavesRoom
  BY DEF TransferInv
<1> QED BY <1>1, TransferInvariant, PTL

\* Nothing but capabilities passes before a ceiling is durable.
THEOREM CeilingComesFirst == Spec => []CeilingBeforeData
<1>1. TransferInv => CeilingBeforeData
  <2> SUFFICES ASSUME TransferInv, step # "closed", Negotiated
               PROVE  state.ceiling # NoCeiling
    BY DEF CeilingBeforeData
  <2>1. "SenderCapabilities" \in state.phases \cap CapabilityFlags
    BY DEF Negotiated, Missing, Control, CapabilityFlags
  <2> QED BY <2>1 DEF TransferInv, CeilingInv
<1> QED BY <1>1, TransferInvariant, PTL

-----------------------------------------------------------------------------
(* The transfer implements DurableTransfer.                                *)

\* What the abstract transfer sees of the files.
Offered == saved # << >> /\ "Offer" \in saved[1].phases

Staged == IF complete # << >> THEN complete[1] ELSE Content(part)

Stored ==
    IF saved # << >> /\ "Receipt" \in saved[1].phases THEN {"stored"} ELSE {}

Simulated == [Transfer!Next]_(Transfer!transferVars)

LEMMA NothingSeen ==
  ASSUME Offered' = Offered, Staged' = Staged, Stored' = Stored,
         (complete # << >>)' = (complete # << >>)
  PROVE  Simulated
BY DEF Simulated, Offered, Staged, Stored, Transfer!transferVars

\* A step that writes no representation file and no such phase is invisible.
LEMMA QuietStep ==
  ASSUME part' = part, complete' = complete, Offered' = Offered, Stored' = Stored
  PROVE  Simulated
BY NothingSeen DEF Staged

\* Nor is one that saves a state with the same two phases.
LEMMA QuietSave ==
  ASSUME TypeOK, HandleInv, step # "closed", saved' = <<state'>>,
         "Offer" \in state'.phases <=> "Offer" \in state.phases,
         "Receipt" \in state'.phases <=> "Receipt" \in state.phases,
         part' = part, complete' = complete
  PROVE  Simulated
<1>1. saved # << >> /\ saved[1] = state
  BY SavedIsState
<1>2. saved' # << >> /\ saved'[1] = state'
  OBVIOUS
<1>3. Offered' = Offered /\ Stored' = Stored
  BY <1>1, <1>2 DEF Offered, Stored
<1> QED BY <1>3, QuietStep

LEMMA OpenSimulated ==
  ASSUME TransferInv, NEW c \in Contacts, Open(c)
  PROVE  Simulated
<1>1. TypeOK /\ saved' = <<Reconciled>> /\ part' = part /\ complete' = complete
  BY DEF TransferInv, Open, Save
<1>2. saved' # << >> /\ saved'[1] = Reconciled
  BY <1>1
<1>3. "Offer" \notin CapabilityFlags /\ "Receipt" \notin CapabilityFlags
  BY DEF CapabilityFlags
<1>4. Offered' = Offered /\ Stored' = Stored
  BY <1>1, <1>2, <1>3, ReconciledProperties DEF Offered, Stored
<1> QED BY <1>1, <1>4, QuietStep

\* The offer is the only control record the abstract transfer sees.
LEMMA InformSimulated ==
  ASSUME TransferInv, NEW f \in DOMAIN Control, Inform(f)
  PROVE  Simulated
<1>1. /\ TypeOK /\ HandleInv /\ step = "contact" /\ f \notin state.phases
      /\ saved' = <<Marked(f)>> /\ state' = Marked(f)
      /\ part' = part /\ complete' = complete
  BY DEF TransferInv, Inform, Save, Due, Missing
<1>2. f \in Flags /\ f # "Receipt"
  BY ControlFlags DEF Control
<1>3. Marked(f).phases = state.phases \cup {f}
  BY <1>1, <1>2, MarkedProperties
<1>4. saved # << >> /\ saved[1] = state /\ saved' # << >> /\ saved'[1] = Marked(f)
  BY <1>1, SavedIsState
<1>5. CASE f = "Offer"
  <2>1. ~Offered /\ Offered' /\ Stored' = Stored
    BY <1>1, <1>2, <1>3, <1>4, <1>5 DEF Offered, Stored
  <2>2. Transfer!Accept
    BY <1>1, <2>1 DEF Transfer!Accept, Offered, Stored
  <2> QED BY <2>2 DEF Simulated, Transfer!Next
<1>6. CASE f # "Offer"
  BY <1>1, <1>2, <1>3, <1>6, QuietSave
<1> QED BY <1>5, <1>6

LEMMA SendReceiptSimulated ==
  ASSUME TransferInv, SendReceipt
  PROVE  Simulated
<1>1. /\ TypeOK /\ HandleInv /\ step = "contact" /\ "Receipt" \notin state.phases
      /\ saved' = <<Marked("Receipt")>> /\ part' = part /\ complete' = complete
  BY DEF TransferInv, SendReceipt, Save, ReceiptDue
<1>2. Marked("Receipt").phases = state.phases \cup {"Receipt"}
  BY <1>1, MarkedProperties DEF Flags, RecordOctets
<1>3. /\ saved # << >> /\ saved[1] = state
      /\ saved' # << >> /\ saved'[1] = Marked("Receipt")
  BY <1>1, SavedIsState
<1>4. Offered' = Offered /\ Stored = {} /\ Stored' = {"stored"}
  BY <1>1, <1>2, <1>3 DEF Offered, Stored
<1>5. Transfer!RetainReceipt
  BY <1>1, <1>4 DEF Transfer!RetainReceipt, Offered, Stored
<1> QED BY <1>5 DEF Simulated, Transfer!Next

\* Octets appended to the staging file, all of a record's or some.
LEMMA AppendSimulated ==
  ASSUME TransferInv, step = "append", AppendsTo(asked),
         NEW added \in Seq(0 .. Size),
         0 < Len(added), Len(added) <= Len(NewOctets(asked)),
         part' = <<Content(part) \o added>>,
         saved' = saved, complete' = complete
  PROVE  Simulated
<1> DEFINE longer == Content(part) \o added
<1>1. /\ TypeOK /\ complete = << >> /\ state.accepted = Len(Content(part))
      /\ Offered
  BY DEF TransferInv, MidwayInv, HandleInv, OfferInv, Offered
<1>2. /\ longer \in Seq(0 .. Size) /\ Len(longer) <= Size
      /\ Len(Content(part)) < Len(longer)
      /\ SubSeq(longer, 1, Len(Content(part))) = Content(part)
  BY <1>1, AppendedProperties
<1>3. Offered' = Offered /\ Stored' = Stored
  BY DEF Offered, Stored
<1>4. Staged = Content(part) /\ Staged' = longer
  BY <1>1, ContentOfFile DEF Staged
<1> HIDE DEF longer
<1>5. Transfer!Receive
  BY <1>1, <1>2, <1>3, <1>4, RepresentationTyped
     DEF Transfer!Receive, Offered, Staged, Stored
<1> QED BY <1>5 DEF Simulated, Transfer!Next

LEMMA AppendSuffixSimulated ==
  ASSUME TransferInv, AppendSuffix
  PROVE  Simulated
<1>1. TypeOK /\ AppendsTo(asked) /\ step = "append"
  BY DEF TransferInv, AppendSuffix
<1>2. NewOctets(asked) \in Seq(0 .. Size) /\ Len(NewOctets(asked)) \in Nat \ {0}
  BY <1>1, AskedTyped, NewOctetsProperties
<1>3. 0 < Len(NewOctets(asked)) /\ Len(NewOctets(asked)) <= Len(NewOctets(asked))
  BY <1>2
<1> QED BY <1>1, <1>2, <1>3, AppendSimulated DEF AppendSuffix

LEMMA TornAppendSimulated ==
  ASSUME TransferInv, TornAppend
  PROVE  Simulated
<1> DEFINE part_of(n) == SubSeq(NewOctets(asked), 1, n)
<1>1. TypeOK /\ AppendsTo(asked) /\ step = "append"
  BY DEF TransferInv, TornAppend
<1>2. NewOctets(asked) \in Seq(0 .. Size) /\ Len(NewOctets(asked)) \in Nat \ {0}
  BY <1>1, AskedTyped, NewOctetsProperties
<1>3. PICK n \in 1 .. (Len(NewOctets(asked)) - 1) :
          part' = <<Content(part) \o part_of(n)>>
  BY DEF TornAppend
<1>4. part_of(n) \in Seq(0 .. Size) /\ Len(part_of(n)) = n
  <2>1. \A i \in 1 .. n : NewOctets(asked)[i] \in 0 .. Size
    <3> TAKE i \in 1 .. n
    <3>1. i \in 1 .. Len(NewOctets(asked))
      BY <1>2
    <3> QED BY <1>2, <3>1, ElementOfSeq
  <2> HIDE DEF part_of
  <2>2. n \in Nat /\ 1 \in Int /\ n \in Int /\ 1 <= n
    BY <1>2
  <2> QED BY <2>1, <2>2, SubSeqProperties DEF part_of
<1> HIDE DEF part_of
<1>5. 0 < Len(part_of(n)) /\ Len(part_of(n)) <= Len(NewOctets(asked))
  BY <1>2, <1>4
<1> QED BY <1>1, <1>3, <1>4, <1>5, AppendSimulated DEF TornAppend

LEMMA QuarantineSimulated ==
  ASSUME TransferInv, Quarantine
  PROVE  Simulated
<1>1. /\ HandleInv /\ step = "contact" /\ ~IsComplete /\ state.accepted = Size
      /\ ~Exact(Content(part)) /\ part' = << >>
      /\ saved' = saved /\ complete' = complete
  BY DEF TransferInv, Quarantine, MayVerify
<1>2. complete = << >> /\ Len(Content(part)) = Size
  BY <1>1 DEF HandleInv, IsComplete
<1>3. Staged = Content(part) /\ Staged' = << >>
  BY <1>1, <1>2 DEF Staged, Content
<1>4. Offered' = Offered /\ Stored' = Stored
  BY <1>1 DEF Offered, Stored
<1>5. Transfer!Reject
  BY <1>1, <1>2, <1>3, <1>4, RepresentationTyped
     DEF Transfer!Reject, Exact, Offered, Staged, Stored
<1> QED BY <1>5 DEF Simulated, Transfer!Next

LEMMA CommitSimulated ==
  ASSUME TransferInv, Commit
  PROVE  Simulated
<1>1. /\ complete = << >> /\ Content(part) = Representation /\ Offered
      /\ complete' = <<Representation>> /\ saved' = saved
  BY DEF TransferInv, MidwayInv, OfferInv, Offered, Commit
<1>2. complete' # << >> /\ complete'[1] = Representation
  BY <1>1
<1>3. Staged = Representation /\ Staged' = Representation
  BY <1>1, <1>2 DEF Staged
<1>4. Offered' = Offered /\ Stored' = Stored
  BY <1>1 DEF Offered, Stored
<1>5. Transfer!Commit
  BY <1>1, <1>2, <1>3, <1>4 DEF Transfer!Commit, Offered, Staged, Stored
<1> QED BY <1>5 DEF Simulated, Transfer!Next

\* Every crash, reopening and record of the transfer is a step of
\* DurableTransfer or invisible to it.
THEOREM TransferImplementsDurable == Spec => ImplementsTransfer
<1>1. Init => Transfer!Init
  <2> SUFFICES ASSUME Init
               PROVE  Transfer!Init
    OBVIOUS
  <2>1. Legacy.phases = CapabilityFlags
    BY DEF Legacy, Fresh
  <2>2. ~Offered /\ Stored = {}
    <3>1. CASE saved = << >>
      BY <3>1 DEF Offered, Stored
    <3>2. CASE saved = <<Legacy>>
      <4>1. saved[1] = Legacy
        BY <3>2
      <4> QED BY <2>1, <4>1 DEF Offered, Stored, CapabilityFlags
    <3> QED BY <3>1, <3>2 DEF Init
  <2>3. Staged = << >> /\ complete = << >>
    BY DEF Init, Staged, Content
  <2> QED BY <2>2, <2>3 DEF Transfer!Init, Offered, Staged, Stored
<1>2. TransferInv /\ [Next]_vars => Simulated
  <2> SUFFICES ASSUME TransferInv, [Next]_vars
               PROVE  Simulated
    OBVIOUS
  <2>1. TypeOK /\ HandleInv /\ MidwayInv /\ ReceiptAfterCommit
    BY DEF TransferInv
  <2>2. ASSUME part' = part, complete' = complete, saved' = saved
        PROVE  Simulated
    BY <2>2, QuietStep DEF Offered, Stored
  <2>3. CASE \E c \in Contacts : Open(c)
    BY <2>3, OpenSimulated
  <2>4. CASE \E f \in CapabilityFlags : ExchangeCapabilities(f)
    <3>1. PICK f \in CapabilityFlags : ExchangeCapabilities(f)
      BY <2>4
    <3>2. state \in StateType
      BY <2>1 DEF TypeOK
    <3>3. /\ step = "contact" /\ saved' = <<state'>> /\ part' = part
          /\ complete' = complete /\ state'.phases = state.phases
      BY <3>1, <3>2 DEF ExchangeCapabilities, Save, StateType
    <3> QED BY <2>1, <3>3, QuietSave
  <2>5. CASE MarkCapabilities
    <3>1. PICK f \in CapabilityFlags : saved' = <<Marked(f)>> /\ state' = Marked(f)
      BY <2>5 DEF MarkCapabilities, Save
    <3>2. Marked(f).phases = state.phases \cup {f}
      BY <2>1, ControlFlags, MarkedProperties
    <3>3. f # "Offer" /\ f # "Receipt"
      BY DEF CapabilityFlags
    <3>4. step = "mark" /\ part' = part /\ complete' = complete
      BY <2>5 DEF MarkCapabilities
    <3> QED BY <2>1, <3>1, <3>2, <3>3, <3>4, QuietSave
  <2>6. CASE \E f \in DOMAIN Control : Inform(f)
    BY <2>6, InformSimulated
  <2>7. CASE Request \/ SendData
    BY <2>2, <2>7 DEF Request, SendData, disk
  <2>8. CASE SendReceipt
    BY <2>8, SendReceiptSimulated
  <2>9. CASE AppendSuffix
    BY <2>9, AppendSuffixSimulated
  <2>10. CASE SaveAppend
    <3>1. state \in StateType
      BY <2>1 DEF TypeOK
    <3>2. /\ step = "appended" /\ saved' = <<state'>> /\ part' = part
          /\ complete' = complete /\ state'.phases = state.phases
      BY <2>10, <3>1 DEF SaveAppend, Save, StateType
    <3> QED BY <2>1, <3>2, QuietSave
  <2>11. CASE VerifyStaged
    <3>1. state \in StateType
      BY <2>1 DEF TypeOK
    <3>2. /\ step = "contact" /\ saved' = <<state'>> /\ part' = part
          /\ complete' = complete /\ state'.phases = state.phases
      BY <2>11, <3>1 DEF VerifyStaged, Save, StateType
    <3> QED BY <2>1, <3>2, QuietSave
  <2>12. CASE Quarantine
    BY <2>12, QuarantineSimulated
  <2>13. CASE SaveQuarantine
    <3>1. state \in StateType
      BY <2>1 DEF TypeOK
    <3>2. /\ step = "quarantined" /\ saved' = <<state'>> /\ part' = part
          /\ complete' = complete /\ state'.phases = state.phases \ {"Receipt"}
      BY <2>13, <3>1 DEF SaveQuarantine, Save, StateType
    <3>3. "Receipt" \notin state.phases
      <4>1. complete = << >> /\ saved # << >> /\ saved[1] = state
        BY <2>1, <3>2, SavedIsState DEF MidwayInv
      <4> QED BY <2>1, <4>1 DEF ReceiptAfterCommit
    <3> QED BY <2>1, <3>2, <3>3, QuietSave
  <2>14. CASE Commit
    BY <2>14, CommitSimulated
  <2>15. CASE SaveCommit
    <3>1. state \in StateType
      BY <2>1 DEF TypeOK
    <3>2. /\ step = "renamed" /\ saved' = <<state'>> /\ part' = part
          /\ complete' = complete /\ state'.phases = state.phases
      BY <2>15, <3>1 DEF SaveCommit, Save, StateType
    <3> QED BY <2>1, <3>2, QuietSave
  <2>16. CASE EndContact \/ Crash \/ UNCHANGED vars
    BY <2>2, <2>16 DEF EndContact, Crash, disk, vars
  <2>17. CASE \E d \in sent : Redeliver(d)
    BY <2>2, <2>17 DEF Redeliver, disk
  <2>18. CASE TornAppend
    BY <2>18, TornAppendSimulated
  <2> QED
    BY <2>3, <2>4, <2>5, <2>6, <2>7, <2>8, <2>9, <2>10, <2>11, <2>12, <2>13,
       <2>14, <2>15, <2>16, <2>17, <2>18 DEF Next, Proceed
<1>3. TransferInv /\ [Next]_vars => [Transfer!Next]_(Transfer!transferVars)
  BY <1>2 DEF Simulated
<1> QED
  BY <1>1, <1>3, TransferInvariant, PTL DEF Spec, ImplementsTransfer, Transfer!Spec
=============================================================================
