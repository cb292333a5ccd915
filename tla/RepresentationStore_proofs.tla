--------------------- MODULE RepresentationStore_proofs ---------------------
(***************************************************************************)
(* Proofs about RepresentationStore, for every representation, every set   *)
(* of receipt IDs and every number of disturbances, under the documented   *)
(* recovery: a caller whose call returned Err drops the store and reopens  *)
(* it (RetryInPlace = FALSE).                                              *)
(***************************************************************************)
EXTENDS RepresentationStore, SequenceTheorems, TLAPS

(***************************************************************************)
(* The inductive invariant: what the files and the newest slot say about   *)
(* each other, and how the open handle relates to them at each boundary.   *)
(***************************************************************************)
FilesInv ==
    /\ complete # NoFile => Accepts(complete) /\ part = NoFile
    /\ Len(Bytes(part)) <= L

NewestSlotInv ==
    /\ Latest.status = "Absent" => complete = NoFile /\ Bytes(part) = << >>
    /\ Latest.status = "Verified" /\ complete = NoFile => Accepts(Bytes(part))
    /\ Latest.status = "Committed" => complete # NoFile

\* The state agrees with the files: reconciling would not change it, except
\* that an empty representation the decoder refused rests in Offered and is
\* reopened in CompleteUnverified.
Settled(s) ==
    /\ s.durable_prefix_octets = HeldOctets
    /\ \/ s.status = ReconciledStatus(s)
       \/ L = 0 /\ complete = NoFile /\ s.status = "Offered"

HandleInv ==
    /\ mem = IF pc = "closed" THEN Fresh ELSE Latest
    /\ pc = "idle" => Settled(mem)
    /\ pc = "PrefixBytes" =>
          /\ complete = NoFile
          /\ mem.status \in {"Offered", "Partial", "CompleteUnverified"}
          /\ Len(Bytes(part)) = mem.durable_prefix_octets + accepted_octets
          /\ accepted_octets > 0
    /\ pc = "QuarantineBytes" => complete = NoFile /\ part = NoFile
    /\ pc = "CommitBytes" => complete # NoFile

StoreInv ==
    /\ TypeOK
    /\ FilesInv
    /\ NewestSlotInv
    /\ HandleInv

-----------------------------------------------------------------------------
(* Facts about the helpers.                                                *)

LEMMA LengthOfEncoded == L \in Nat
  BY ConstantsAssumption, LenProperties DEF L

LEMMA FreshIsState == Fresh \in State
  BY LengthOfEncoded, ConstantsAssumption DEF Fresh, State, Status

LEMMA MovedType ==
  ASSUME NEW s \in State, NEW status \in Status, NEW octets \in 0 .. L
  PROVE  /\ Moved(s, status, octets) \in State
         /\ Moved(s, status, octets).sequence = s.sequence
         /\ Moved(s, status, octets).status = status
         /\ Moved(s, status, octets).durable_prefix_octets = octets
         /\ Moved(s, status, octets).receipt_ids = s.receipt_ids
  BY DEF State, Moved

LEMMA BytesType ==
  ASSUME NEW file \in Seq(Octets) \union {NoFile}
  PROVE  /\ Bytes(file) \in Seq(Octets)
         /\ Len(Bytes(file)) \in Nat
         /\ file = NoFile => Len(Bytes(file)) = 0
  BY EmptySeq, LenProperties DEF Bytes

LEMMA PayloadType ==
  ASSUME NEW payload \in Payloads
  PROVE  payload \in Seq(Octets) /\ Len(payload) \in 1 .. L
<1>1. PICK n \in 1 .. L : payload \in [1 .. n -> Octets]
  BY DEF Payloads
<1>2. n \in Nat
  BY <1>1, LengthOfEncoded
<1>3. payload \in Seq(Octets) /\ Len(payload) = n
  BY <1>1, <1>2
<1> QED BY <1>1, <1>3

\* What accept_data appends is non-empty and reaches exactly to the end of
\* the payload, so the prefix it leads to is offset + Len(payload).
LEMMA SuffixType ==
  ASSUME TypeOK, NEW offset \in 0 .. L, NEW payload \in Payloads,
         MayAppend(offset, payload)
  PROVE  /\ Suffix(offset, payload) \in Seq(Octets)
         /\ Len(Suffix(offset, payload)) \in 1 .. L
         /\ mem.durable_prefix_octets + Len(Suffix(offset, payload))
              = offset + Len(payload)
         /\ offset + Len(payload) <= L
         /\ mem.durable_prefix_octets < L
<1> DEFINE from == Overlap(offset, payload) + 1
<1>1. payload \in Seq(Octets) /\ Len(payload) \in 1 .. L
  BY PayloadType
<1>2. mem.durable_prefix_octets \in 0 .. L
  BY DEF TypeOK, State
<1>3. /\ offset <= mem.durable_prefix_octets
      /\ offset + Len(payload) <= L
      /\ Overlap(offset, payload) < Len(payload)
  BY DEF MayAppend
<1>4. Overlap(offset, payload) = mem.durable_prefix_octets - offset
  BY <1>1, <1>2, <1>3, LengthOfEncoded DEF Overlap
<1>5. from \in 1 .. Len(payload)
  BY <1>1, <1>2, <1>3, <1>4, LengthOfEncoded
<1>6. \A i \in from .. Len(payload) : payload[i] \in Octets
  BY <1>1, <1>5, ElementOfSeq
<1>7. /\ Suffix(offset, payload) \in Seq(Octets)
      /\ Len(Suffix(offset, payload)) = Len(payload) - from + 1
  <2> HIDE DEF from
  <2>1. Suffix(offset, payload) = SubSeq(payload, from, Len(payload))
    BY DEF Suffix, from
  <2>2. from \in Int /\ Len(payload) \in Int /\ from <= Len(payload)
    BY <1>1, <1>5, LengthOfEncoded
  <2> QED BY <1>6, <2>1, <2>2, SubSeqProperties
<1>8. Len(Suffix(offset, payload))
        = Len(payload) - (mem.durable_prefix_octets - offset)
  <2> HIDE DEF Suffix
  <2>1. from = mem.durable_prefix_octets - offset + 1
    BY <1>4
  <2> QED BY <1>1, <1>2, <1>7, <2>1, LengthOfEncoded
<1> HIDE DEF from
<1> QED
  BY <1>1, <1>2, <1>3, <1>4, <1>7, <1>8, LengthOfEncoded

LEMMA AppendType ==
  ASSUME NEW old \in Seq(Octets), NEW new \in Seq(Octets)
  PROVE  /\ old \o new \in Seq(Octets)
         /\ Len(old \o new) = Len(old) + Len(new)
         /\ IsExtension(old \o new, old)
<1>1. /\ old \o new \in Seq(Octets)
      /\ Len(old \o new) = Len(old) + Len(new)
      /\ Len(old) \in Nat /\ Len(new) \in Nat
  BY ConcatProperties, LenProperties
<1>2. SubSeq(old \o new, 1, Len(old)) = old
  <2>1. CASE old = << >>
    BY <2>1, <1>1, SubSeqEmpty, EmptySeq
  <2>2. CASE old # << >>
    <3>1. Len(old) \in 1 .. Len(old) /\ 1 \in 1 .. Len(old)
      BY <2>2, <1>1, EmptySeq
    <3>2. SubSeq(old \o new, 1, Len(old)) = SubSeq(old, 1, Len(old))
      BY <3>1, SubSeqOfConcat1
    <3> QED BY <3>2, SubSeqFull
  <2> QED BY <2>1, <2>2
<1> QED BY <1>1, <1>2 DEF IsExtension

-----------------------------------------------------------------------------
(* Saving.                                                                 *)

\* Writing the slot that the next sequence selects makes it the newest.
LEMMA WrittenIsLatest ==
  ASSUME TypeOK, NEW s \in State, s.sequence = Latest.sequence,
         s.sequence < MaxSequence, slots' = Written(s)
  PROVE  /\ Persisted(s) \in State
         /\ slots' \in [0 .. 1 -> State]
         /\ Latest' = Persisted(s)
<1>1. s.sequence \in 0 .. MaxSequence /\ MaxSequence \in Nat
  BY ConstantsAssumption DEF State
<1>2. Persisted(s) \in State /\ Persisted(s).sequence = s.sequence + 1
  BY <1>1, LengthOfEncoded DEF Persisted, State
<1>3. (s.sequence + 1) % 2 \in 0 .. 1
  BY <1>1
<1>4. slots \in [0 .. 1 -> State]
  BY DEF TypeOK
<1>5. /\ slots[0].sequence \in Nat /\ slots[1].sequence \in Nat
      /\ slots[0].sequence <= s.sequence /\ slots[1].sequence <= s.sequence
  BY <1>1, <1>4 DEF State, Latest
<1>6. slots' = [slots EXCEPT ![(s.sequence + 1) % 2] = Persisted(s)]
  BY DEF Written
<1>7. slots' \in [0 .. 1 -> State]
  BY <1>2, <1>3, <1>4, <1>6
<1>8. CASE (s.sequence + 1) % 2 = 0
  <2>1. slots'[0] = Persisted(s) /\ slots'[1] = slots[1]
    BY <1>4, <1>6, <1>8
  <2> QED BY <1>1, <1>2, <1>5, <1>7, <2>1 DEF Latest
<1>9. CASE (s.sequence + 1) % 2 = 1
  <2>1. slots'[1] = Persisted(s) /\ slots'[0] = slots[0]
    BY <1>4, <1>6, <1>9
  <2>2. ~(slots'[0].sequence > slots'[1].sequence)
    BY <1>1, <1>2, <1>5, <2>1
  <2> QED BY <1>2, <1>7, <2>1, <2>2 DEF Latest
<1> QED BY <1>2, <1>3, <1>7, <1>8, <1>9

\* A save leaves the old or the new state newest; the handle stays open only
\* with the state that is newest.
LEMMA SaveOutcome ==
  ASSUME RetryInPlace = FALSE, TypeOK, mem = Latest,
         NEW s \in State, s.sequence = mem.sequence,
         NEW cost \in Nat, Save(s, cost)
  PROVE  /\ slots' \in [0 .. 1 -> State]
         /\ mem' \in State
         /\ disturbances' \in 0 .. MaxDisturbances
         /\ pc' \in {"closed", "idle"}
         /\ mem' = IF pc' = "closed" THEN Fresh ELSE Latest'
         /\ \/ slots' = slots /\ Latest' = Latest /\ pc' = "closed"
            \/ Latest' = Persisted(s)
<1>1. disturbances' \in 0 .. MaxDisturbances
  <2>1. disturbances \in 0 .. MaxDisturbances
    BY DEF TypeOK
  <2> QED BY <2>1, ConstantsAssumption DEF Save, Spend
<1>2. CASE /\ s.sequence < MaxSequence
           /\ slots' = Written(s)
           /\ mem' = Persisted(s)
           /\ pc' = "idle"
  BY <1>1, <1>2, WrittenIsLatest
<1>3. CASE slots' = slots /\ Raise(s)
  BY <1>1, <1>3, FreshIsState DEF TypeOK, Raise, Latest
<1>4. CASE /\ s.sequence < MaxSequence
           /\ slots' = Written(s)
           /\ Raise(s) \/ Raise(Persisted(s))
  BY <1>1, <1>4, WrittenIsLatest, FreshIsState DEF Raise
<1> QED BY <1>2, <1>3, <1>4 DEF Save

\* A state the files agree with, saved again, is still one they agree with,
\* and a reopening would show the same snapshot.
LEMMA SettledSaved ==
  ASSUME NEW s \in State, Settled(s)
  PROVE  /\ Settled(Persisted(s))
         /\ Snapshot(Reconciled(s)) = Snapshot(s)
<1>1. Settled(Persisted(s))
  BY DEF State, Settled, ReconciledStatus, Persisted
<1>2. /\ Reconciled(s).durable_prefix_octets = s.durable_prefix_octets
      /\ Reconciled(s).receipt_ids = s.receipt_ids
      /\ Reconciled(s).status = ReconciledStatus(s)
  BY DEF State, Settled, Reconciled, Moved
<1>3. /\ ReconciledStatus(s) = "Absent" <=> s.status = "Absent"
      /\ ReconciledStatus(s) = "Verified" <=> s.status = "Verified"
      /\ ReconciledStatus(s) = "Committed" <=> s.status = "Committed"
  BY DEF Settled, ReconciledStatus, Received
<1> QED BY <1>1, <1>2, <1>3 DEF Snapshot

LEMMA HeldType ==
  ASSUME TypeOK, FilesInv
  PROVE  HeldOctets \in 0 .. L
  BY BytesType, LengthOfEncoded DEF TypeOK, FilesInv, HeldOctets

LEMMA ReconciledType ==
  ASSUME TypeOK, FilesInv, NEW s \in State
  PROVE  /\ Reconciled(s) \in State
         /\ Reconciled(s).sequence = s.sequence
         /\ Reconciled(s).status = ReconciledStatus(s)
         /\ Settled(Reconciled(s))
<1>1. HeldOctets \in 0 .. L
  BY HeldType
<1>2. ReconciledStatus(s) \in Status
  BY DEF ReconciledStatus, Received, Status
<1>3. Reconciled(s) \in State /\ Reconciled(s).sequence = s.sequence
  BY <1>1, <1>2, MovedType DEF Reconciled
<1>4. ReconciledStatus(Reconciled(s)) = ReconciledStatus(s)
  BY <1>3, <1>1, <1>2, LengthOfEncoded
     DEF Reconciled, Moved, ReconciledStatus, Received, State
<1> QED BY <1>1, <1>2, <1>3, <1>4, MovedType DEF Reconciled, Settled

-----------------------------------------------------------------------------
(* The invariant is inductive.                                             *)

\* The conjuncts of NewestSlotInv and HandleInv that a state has to meet to be
\* saved by an operation that then returns.
MaySave(s) ==
    /\ s \in State
    /\ s.sequence = mem.sequence
    /\ Settled(s)
    /\ s.status = "Absent" => complete = NoFile /\ Bytes(part) = << >>
    /\ s.status = "Verified" /\ complete = NoFile => Accepts(Bytes(part))
    /\ s.status = "Committed" => complete # NoFile

LEMMA SavePreserves ==
  ASSUME RetryInPlace = FALSE, StoreInv, pc # "closed",
         NEW s, MaySave(s), NEW cost \in Nat, Save(s, cost),
         UNCHANGED <<part, complete>>, accepted_octets' \in 0 .. L
  PROVE  StoreInv'
<1>1. TypeOK /\ mem = Latest /\ s \in State /\ s.sequence = mem.sequence
  BY DEF StoreInv, HandleInv, MaySave
<1>2. /\ slots' \in [0 .. 1 -> State]
      /\ mem' \in State
      /\ disturbances' \in 0 .. MaxDisturbances
      /\ pc' \in {"closed", "idle"}
      /\ mem' = IF pc' = "closed" THEN Fresh ELSE Latest'
      /\ \/ slots' = slots /\ Latest' = Latest /\ pc' = "closed"
         \/ Latest' = Persisted(s)
  BY <1>1, SaveOutcome
<1>3. TypeOK'
  BY <1>1, <1>2 DEF TypeOK
<1>4. FilesInv'
  BY DEF StoreInv, FilesInv, Bytes
<1>5. NewestSlotInv'
  <2>1. CASE Latest' = Latest
    BY <2>1 DEF StoreInv, NewestSlotInv, Bytes
  <2>2. CASE Latest' = Persisted(s)
    <3>1. Latest'.status = s.status
      BY <2>2, <1>1 DEF Persisted, State
    <3> QED BY <3>1 DEF MaySave, NewestSlotInv, Bytes
  <2> QED BY <1>2, <2>1, <2>2
<1>6. HandleInv'
  <2>1. pc' = "idle" => Settled(mem)'
    <3>1. SUFFICES ASSUME pc' = "idle" PROVE Settled(mem)'
      OBVIOUS
    <3>2. mem' = Persisted(s)
      BY <3>1, <1>2
    <3>3. Settled(Persisted(s))
      BY <1>1, SettledSaved DEF MaySave
    <3> QED BY <3>2, <3>3
            DEF Settled, ReconciledStatus, HeldOctets, Bytes
  <2> QED BY <1>2, <2>1 DEF HandleInv
<1> QED BY <1>3, <1>4, <1>5, <1>6 DEF StoreInv

\* Between operations the handle holds a state its files agree with.
LEMMA IdleFacts ==
  ASSUME StoreInv, pc = "idle"
  PROVE  /\ mem \in State
         /\ mem = Latest
         /\ Settled(mem)
         /\ mem.durable_prefix_octets = HeldOctets
         /\ L > 0 => mem.status = ReconciledStatus(mem)
         /\ mem.status # "Committed" => complete = NoFile
         /\ MaySave(mem)
<1>1. mem \in State /\ mem = Latest /\ Settled(mem)
  BY DEF StoreInv, TypeOK, HandleInv
<1>2. L > 0 => mem.status = ReconciledStatus(mem)
  BY <1>1, LengthOfEncoded DEF Settled
<1>3. mem.status # "Committed" => complete = NoFile
  BY <1>1 DEF Settled, ReconciledStatus
<1> QED BY <1>1, <1>2, <1>3 DEF StoreInv, NewestSlotInv, MaySave, Settled

LEMMA InitInv == Init => StoreInv
<1> SUFFICES ASSUME Init PROVE StoreInv
  OBVIOUS
<1>1. /\ Fresh \in State /\ Fresh.status = "Absent"
      /\ Latest = Fresh
  BY FreshIsState DEF Init, Latest, Fresh
<1>2. TypeOK
  BY <1>1, LengthOfEncoded, ConstantsAssumption DEF Init, TypeOK
<1>3. Bytes(part) = << >> /\ complete = NoFile
  BY DEF Init, Bytes
<1> QED
  BY <1>1, <1>2, <1>3, LengthOfEncoded, EmptySeq
  DEF Init, StoreInv, FilesInv, NewestSlotInv, HandleInv

LEMMA AcceptDescriptorInv ==
  ASSUME RetryInPlace = FALSE, StoreInv, AcceptDescriptor
  PROVE  StoreInv'
<1> DEFINE s == [mem EXCEPT !.status =
                   IF L = 0 THEN "CompleteUnverified" ELSE "Offered"]
<1>1. pc = "idle" /\ mem.status = "Absent" /\ Save(s, 0)
      /\ UNCHANGED <<part, complete>> /\ accepted_octets' \in 0 .. L
  BY DEF AcceptDescriptor, StoreInv, TypeOK
<1>2. /\ mem \in State /\ mem = Latest
      /\ mem.durable_prefix_octets = HeldOctets
  BY <1>1, IdleFacts
<1>3. complete = NoFile /\ Bytes(part) = << >> /\ HeldOctets = 0
  BY <1>1, <1>2, EmptySeq DEF StoreInv, NewestSlotInv, HeldOctets
<1>4. /\ s \in State /\ s.sequence = mem.sequence
      /\ s.durable_prefix_octets = HeldOctets
      /\ s.status = IF L = 0 THEN "CompleteUnverified" ELSE "Offered"
  BY <1>2 DEF State, Status
<1>5. s.status = ReconciledStatus(s)
  BY <1>3, <1>4, LengthOfEncoded DEF ReconciledStatus, Received
<1> HIDE DEF s
<1>6. Settled(s)
  BY <1>4, <1>5 DEF Settled
<1>7. MaySave(s)
  BY <1>3, <1>4, <1>6 DEF MaySave
<1> QED BY <1>1, <1>7, SavePreserves

LEMMA CommitReceiptInv ==
  ASSUME RetryInPlace = FALSE, StoreInv,
         NEW id \in Receipts, CommitReceipt(id)
  PROVE  StoreInv'
<1> DEFINE s == [mem EXCEPT !.receipt_ids = @ \union {id}]
<1>1. pc = "idle" /\ Save(s, 0)
      /\ UNCHANGED <<part, complete>> /\ accepted_octets' \in 0 .. L
  BY DEF CommitReceipt, StoreInv, TypeOK
<1>2. mem \in State /\ MaySave(mem) /\ Settled(mem)
  BY <1>1, IdleFacts
<1>3. /\ s \in State /\ s.sequence = mem.sequence
      /\ s.status = mem.status
      /\ s.durable_prefix_octets = mem.durable_prefix_octets
  BY <1>2 DEF State
<1>4. Settled(s)
  BY <1>2, <1>3 DEF Settled, ReconciledStatus
<1>5. MaySave(s)
  BY <1>2, <1>3, <1>4 DEF MaySave
<1> QED BY <1>1, <1>5, SavePreserves

\* A step that drops the handle and leaves the files as they are.
LEMMA ClosingInv ==
  ASSUME StoreInv, UNCHANGED diskVars, pc' = "closed", mem' = Fresh,
         accepted_octets' = 0, Spend(1)
  PROVE  StoreInv'
<1>1. TypeOK'
  BY FreshIsState, LengthOfEncoded, ConstantsAssumption
  DEF StoreInv, TypeOK, diskVars, Spend
<1>2. FilesInv' /\ NewestSlotInv'
  BY DEF StoreInv, FilesInv, NewestSlotInv, Latest, Bytes, diskVars
<1> QED BY <1>1, <1>2 DEF StoreInv, HandleInv

LEMMA OpenInv ==
  ASSUME StoreInv, Open
  PROVE  StoreInv'
<1> DEFINE s == Reconciled(Latest)
<1>1. /\ TypeOK /\ FilesInv /\ NewestSlotInv /\ Latest \in State
      /\ pc = "closed" /\ mem = Fresh
  BY DEF Open, StoreInv, HandleInv, TypeOK, Latest
<1>2. /\ s \in State /\ s.sequence = Latest.sequence
      /\ s.status = ReconciledStatus(Latest)
      /\ Settled(s)
  BY <1>1, ReconciledType
<1>3. UNCHANGED <<part, complete, accepted_octets>>
  BY DEF Open
<1>4. FilesInv'
  BY <1>1, <1>3 DEF FilesInv, Bytes
<1>5. /\ s.status = "Absent" => complete = NoFile /\ Bytes(part) = << >>
      /\ s.status = "Verified" /\ complete = NoFile => Accepts(Bytes(part))
      /\ s.status = "Committed" => complete # NoFile
  <2> HIDE DEF s
  <2> QED BY <1>1, <1>2 DEF ReconciledStatus, Received, NewestSlotInv
<1>6. CASE Reconciled(Latest) = Latest
  <2>1. mem' = Latest /\ pc' = "idle" /\ UNCHANGED <<slots, disturbances>>
    BY <1>6 DEF Open
  <2>2. Latest' = Latest
    BY <2>1 DEF Latest
  <2>3. TypeOK'
    BY <1>1, <1>3, <2>1 DEF TypeOK
  <2>4. NewestSlotInv'
    BY <1>1, <1>3, <2>2 DEF NewestSlotInv, Bytes
  <2>5. Settled(Latest)
    BY <1>2, <1>6
  <2>6. HandleInv'
    BY <1>3, <2>1, <2>2, <2>5
    DEF HandleInv, Settled, ReconciledStatus, HeldOctets, Bytes
  <2> QED BY <1>4, <2>3, <2>4, <2>6 DEF StoreInv
<1>7. CASE Reconciled(Latest) # Latest
  <2>1. /\ s.sequence < MaxSequence
        /\ slots' = Written(s)
        /\ \/ mem' = Persisted(s) /\ pc' = "idle" /\ UNCHANGED disturbances
           \/ Spend(1) /\ UNCHANGED <<mem, pc>>
    BY <1>2, <1>7 DEF Open
  <2>2. /\ Persisted(s) \in State
        /\ slots' \in [0 .. 1 -> State]
        /\ Latest' = Persisted(s)
    BY <1>1, <1>2, <2>1, WrittenIsLatest
  <2>3. disturbances' \in 0 .. MaxDisturbances
    BY <1>1, <2>1, ConstantsAssumption DEF TypeOK, Spend
  <2>4. TypeOK'
    BY <1>1, <1>3, <2>1, <2>2, <2>3 DEF TypeOK
  <2>5. Latest'.status = s.status
    BY <1>2, <2>2 DEF Persisted, State
  <2>6. NewestSlotInv'
    BY <1>3, <1>5, <2>5 DEF NewestSlotInv, Bytes
  <2>7. Settled(Persisted(s))
    BY <1>2, SettledSaved
  <2>8. HandleInv'
    <3> HIDE DEF s
    <3>1. mem' = IF pc' = "closed" THEN Fresh ELSE Latest'
      BY <1>1, <2>1, <2>2
    <3>2. pc' = "idle" => Settled(mem)'
      BY <1>1, <1>3, <2>1, <2>7
      DEF Settled, ReconciledStatus, HeldOctets, Bytes
    <3> QED BY <1>1, <2>1, <3>1, <3>2 DEF HandleInv
  <2> QED BY <1>4, <2>4, <2>6, <2>8 DEF StoreInv
<1> QED BY <1>6, <1>7

\* What holds when accept_data is about to append.
LEMMA BeforeAppend ==
  ASSUME StoreInv, NEW offset \in 0 .. L, NEW payload \in Payloads,
         MayAppend(offset, payload)
  PROVE  /\ complete = NoFile
         /\ Latest = mem
         /\ mem.status \in {"Offered", "Partial", "CompleteUnverified"}
         /\ Bytes(part) \in Seq(Octets)
         /\ Len(Bytes(part)) = mem.durable_prefix_octets
         /\ Len(Bytes(part)) < L
         /\ mem.durable_prefix_octets + Len(Suffix(offset, payload)) <= L
<1>1. pc = "idle" /\ mem.status \notin {"Absent", "Committed"}
  BY DEF MayAppend
<1>2. TypeOK
  BY DEF StoreInv
<1>3. /\ mem \in State /\ mem = Latest
      /\ mem.durable_prefix_octets = HeldOctets
      /\ L > 0 => mem.status = ReconciledStatus(mem)
      /\ mem.status # "Committed" => complete = NoFile
  BY <1>1, IdleFacts
<1>4. complete = NoFile
  BY <1>1, <1>3
<1>5. Bytes(part) \in Seq(Octets) /\ Len(Bytes(part)) = mem.durable_prefix_octets
  BY <1>2, <1>3, <1>4, BytesType DEF TypeOK, HeldOctets
<1>6. /\ mem.durable_prefix_octets < L
      /\ mem.durable_prefix_octets + Len(Suffix(offset, payload)) <= L
  BY <1>2, SuffixType
<1>7. HeldOctets # L /\ L > 0
  BY <1>3, <1>6, <1>5, LengthOfEncoded, LenProperties
<1>8. mem.status \in {"Offered", "Partial", "CompleteUnverified"}
  BY <1>1, <1>3, <1>7 DEF State, Status, ReconciledStatus, Received
<1> QED BY <1>3, <1>4, <1>5, <1>6, <1>8

\* Whatever part of the suffix reaches the file, the files and the newest slot
\* still agree.
LEMMA AppendKeepsFiles ==
  ASSUME StoreInv, NEW offset \in 0 .. L, NEW payload \in Payloads,
         MayAppend(offset, payload), UNCHANGED <<slots, complete>>,
         NEW tail \in Seq(Octets), Len(tail) <= Len(Suffix(offset, payload)),
         part' = Bytes(part) \o tail
  PROVE  /\ part' \in Seq(Octets)
         /\ Len(Bytes(part)') = mem.durable_prefix_octets + Len(tail)
         /\ FilesInv'
         /\ NewestSlotInv'
<1>1. /\ complete = NoFile /\ Latest = mem
      /\ mem.status \in {"Offered", "Partial", "CompleteUnverified"}
      /\ Bytes(part) \in Seq(Octets)
      /\ Len(Bytes(part)) = mem.durable_prefix_octets
      /\ mem.durable_prefix_octets + Len(Suffix(offset, payload)) <= L
  BY BeforeAppend
<1>2. /\ part' \in Seq(Octets)
      /\ Len(part') = mem.durable_prefix_octets + Len(tail)
  BY <1>1, AppendType
<1>3. Bytes(part)' = part'
  BY <1>2, ConstantsAssumption DEF Bytes
<1>4. /\ Len(tail) \in Nat /\ Len(Bytes(part)) \in Nat
      /\ Len(Suffix(offset, payload)) \in Nat
  BY <1>1, LenProperties, SuffixType, LengthOfEncoded DEF StoreInv
<1>5. FilesInv'
  BY <1>1, <1>2, <1>3, <1>4, LengthOfEncoded DEF FilesInv
<1>6. Latest' = Latest
  BY DEF Latest
<1>7. NewestSlotInv'
  BY <1>1, <1>6 DEF NewestSlotInv
<1> QED BY <1>2, <1>3, <1>5, <1>7

LEMMA SpendType ==
  ASSUME disturbances \in 0 .. MaxDisturbances, NEW n \in Nat, Spend(n)
  PROVE  disturbances' \in 0 .. MaxDisturbances
  BY ConstantsAssumption DEF Spend

LEMMA AcceptDataInv ==
  ASSUME StoreInv, NEW offset \in 0 .. L, NEW payload \in Payloads,
         AcceptData(offset, payload)
  PROVE  StoreInv'
<1>1. /\ MayAppend(offset, payload)
      /\ part' = Bytes(part) \o Suffix(offset, payload)
      /\ accepted_octets' = Len(Suffix(offset, payload))
      /\ pc' = "PrefixBytes"
      /\ UNCHANGED <<slots, complete, mem>>
  BY DEF AcceptData
<1>2. TypeOK
  BY DEF StoreInv
<1>3. /\ Suffix(offset, payload) \in Seq(Octets)
      /\ Len(Suffix(offset, payload)) \in 1 .. L
  BY <1>1, <1>2, SuffixType
<1>4. Len(Suffix(offset, payload)) <= Len(Suffix(offset, payload))
  BY <1>3, LengthOfEncoded
<1>5. /\ part' \in Seq(Octets)
      /\ Len(Bytes(part)') = mem.durable_prefix_octets + accepted_octets'
      /\ FilesInv' /\ NewestSlotInv'
  BY <1>1, <1>3, <1>4, AppendKeepsFiles
<1>6. disturbances' \in 0 .. MaxDisturbances
  BY <1>2, SpendType DEF AcceptData, TypeOK
<1>7. TypeOK'
  BY <1>1, <1>2, <1>3, <1>5, <1>6, LengthOfEncoded DEF TypeOK
<1>8. /\ complete = NoFile /\ Latest = mem
      /\ mem.status \in {"Offered", "Partial", "CompleteUnverified"}
  BY <1>1, BeforeAppend
<1>9. HandleInv'
  BY <1>1, <1>3, <1>5, <1>8, LengthOfEncoded DEF HandleInv, Latest
<1> QED BY <1>5, <1>7, <1>9 DEF StoreInv

LEMMA AppendInterruptedInv ==
  ASSUME RetryInPlace = FALSE, StoreInv,
         NEW offset \in 0 .. L, NEW payload \in Payloads,
         AppendInterrupted(offset, payload)
  PROVE  StoreInv'
<1> DEFINE suffix == Suffix(offset, payload)
<1>1. MayAppend(offset, payload) /\ UNCHANGED <<slots, complete, accepted_octets>>
      /\ pc' = "closed" /\ mem' = Fresh
  BY DEF AppendInterrupted, Raise
<1>2. PICK n \in 0 .. Len(suffix) - 1 :
         part' = Bytes(part) \o SubSeq(suffix, 1, n)
  BY DEF AppendInterrupted
<1>3. TypeOK
  BY DEF StoreInv
<1>4. suffix \in Seq(Octets) /\ Len(suffix) \in 1 .. L
  BY <1>1, <1>3, SuffixType
<1> DEFINE tail == SubSeq(suffix, 1, n)
<1>5. tail \in Seq(Octets) /\ Len(tail) <= Len(suffix)
  <2>1. \A i \in 1 .. n : suffix[i] \in Octets
    BY <1>2, <1>4, ElementOfSeq, LengthOfEncoded
  <2>2. n \in Int /\ n < Len(suffix)
    BY <1>2, <1>4, LengthOfEncoded
  <2>3. /\ SubSeq(suffix, 1, n) \in Seq(Octets)
        /\ Len(SubSeq(suffix, 1, n)) = IF 1 <= n THEN n - 1 + 1 ELSE 0
    BY <2>1, <2>2, SubSeqProperties
  <2> QED BY <1>2, <1>4, <2>2, <2>3, LengthOfEncoded
<1>6. part' \in Seq(Octets) /\ FilesInv' /\ NewestSlotInv'
  BY <1>1, <1>2, <1>5, AppendKeepsFiles
<1>7. disturbances' \in 0 .. MaxDisturbances
  BY <1>3, SpendType DEF AppendInterrupted, TypeOK
<1>8. TypeOK'
  BY <1>1, <1>3, <1>6, <1>7, FreshIsState DEF TypeOK
<1> QED BY <1>1, <1>6, <1>8 DEF StoreInv, HandleInv

LEMMA SavePrefixInv ==
  ASSUME RetryInPlace = FALSE, StoreInv, SavePrefix
  PROVE  StoreInv'
<1> DEFINE prefix == mem.durable_prefix_octets + accepted_octets
           s == Moved(mem, Received(prefix), prefix)
<1>1. /\ pc = "PrefixBytes" /\ Save(s, 0)
      /\ UNCHANGED <<part, complete>> /\ accepted_octets' \in 0 .. L
  BY LengthOfEncoded DEF SavePrefix
<1>2. /\ complete = NoFile /\ Len(Bytes(part)) = prefix
      /\ accepted_octets > 0 /\ mem = Latest /\ mem \in State
      /\ accepted_octets \in 0 .. L
  BY <1>1 DEF StoreInv, HandleInv, TypeOK
<1>3. HeldOctets = prefix /\ prefix \in 1 .. L
  BY <1>2, LengthOfEncoded DEF StoreInv, FilesInv, HeldOctets, State
<1> HIDE DEF prefix
<1>4. /\ s \in State /\ s.sequence = mem.sequence
      /\ s.durable_prefix_octets = prefix /\ s.status = Received(prefix)
  <2>1. Received(prefix) \in Status /\ prefix \in 0 .. L
    BY <1>3, LengthOfEncoded DEF Received, Status
  <2> QED BY <1>2, <2>1, MovedType
<1>5. s.status \in {"Partial", "CompleteUnverified"}
  BY <1>4 DEF Received
<1> HIDE DEF s
<1>6. Settled(s)
  BY <1>2, <1>3, <1>4, <1>5, LengthOfEncoded DEF Settled, ReconciledStatus
<1>7. MaySave(s)
  BY <1>4, <1>5, <1>6 DEF MaySave
<1> QED BY <1>1, <1>7, SavePreserves

\* The reset that ends a quarantine.
LEMMA ResetMaySave ==
  ASSUME StoreInv, pc # "closed", complete = NoFile, part = NoFile
  PROVE  MaySave(ResetToOffered(mem))
<1> DEFINE s == ResetToOffered(mem)
<1>1. mem \in State
  BY DEF StoreInv, TypeOK
<1>2. /\ s \in State /\ s.sequence = mem.sequence
      /\ s.durable_prefix_octets = 0 /\ s.status = "Offered"
  <2>1. "Offered" \in Status /\ 0 \in 0 .. L
    BY LengthOfEncoded DEF Status
  <2> QED BY <1>1, <2>1, MovedType DEF ResetToOffered
<1>3. HeldOctets = 0
  BY EmptySeq DEF HeldOctets, Bytes
<1> HIDE DEF s
<1>4. Settled(s)
  BY <1>2, <1>3, LengthOfEncoded DEF Settled, ReconciledStatus
<1>5. MaySave(s)
  BY <1>2, <1>4 DEF MaySave
<1> QED BY <1>5 DEF s

LEMMA SaveQuarantineInv ==
  ASSUME RetryInPlace = FALSE, StoreInv, SaveQuarantine
  PROVE  StoreInv'
<1>1. /\ pc = "QuarantineBytes" /\ Save(ResetToOffered(mem), 0)
      /\ UNCHANGED <<part, complete>> /\ accepted_octets' \in 0 .. L
  BY DEF SaveQuarantine, StoreInv, TypeOK
<1>2. complete = NoFile /\ part = NoFile
  BY <1>1 DEF StoreInv, HandleInv
<1>3. MaySave(ResetToOffered(mem))
  BY <1>1, <1>2, ResetMaySave
<1> QED BY <1>1, <1>3, SavePreserves

LEMMA VerifyStagedInv ==
  ASSUME RetryInPlace = FALSE, StoreInv, VerifyStaged
  PROVE  StoreInv'
<1> DEFINE repeat == IF mem.status = "Verified" THEN 1 ELSE 0
           s == [mem EXCEPT !.status = "Verified"]
<1>1. /\ pc = "idle" /\ mem.status # "Committed"
      /\ mem.durable_prefix_octets = L
      /\ UNCHANGED <<complete, accepted_octets>>
      /\ repeat \in Nat
  BY DEF VerifyStaged
<1>2. /\ mem \in State /\ mem = Latest /\ complete = NoFile
      /\ HeldOctets = L
      /\ TypeOK
  BY <1>1, IdleFacts DEF StoreInv
<1>3. CASE Accepts(Bytes(part)) /\ Save(s, repeat) /\ UNCHANGED part
  <2>1. /\ s \in State /\ s.sequence = mem.sequence
        /\ s.durable_prefix_octets = L /\ s.status = "Verified"
    BY <1>1, <1>2 DEF State, Status
  <2> HIDE DEF s, repeat
  <2>2. Settled(s)
    BY <1>2, <2>1 DEF Settled, ReconciledStatus
  <2>3. MaySave(s)
    BY <1>3, <2>1, <2>2 DEF MaySave
  <2>4. accepted_octets' \in 0 .. L
    BY <1>1, <1>2 DEF TypeOK
  <2> QED BY <1>1, <1>3, <2>3, <2>4, SavePreserves
<1>4. CASE /\ ~Accepts(Bytes(part)) /\ part' = NoFile
           /\ pc' = "QuarantineBytes"
           /\ UNCHANGED <<slots, mem, disturbances>>
  <2>1. Latest' = Latest /\ Bytes(part)' = << >>
    BY <1>4 DEF Latest, Bytes
  <2>2. TypeOK'
    BY <1>1, <1>2, <1>4 DEF TypeOK
  <2>3. FilesInv'
    BY <1>1, <1>2, <2>1, EmptySeq, LengthOfEncoded DEF FilesInv
  <2>4. NewestSlotInv'
    BY <1>1, <1>2, <1>4, <2>1 DEF StoreInv, NewestSlotInv
  <2>5. HandleInv'
    BY <1>1, <1>2, <1>4, <2>1 DEF HandleInv
  <2> QED BY <2>2, <2>3, <2>4, <2>5 DEF StoreInv
<1>5. CASE part = NoFile /\ Save(ResetToOffered(mem), 0) /\ UNCHANGED part
  <2>1. MaySave(ResetToOffered(mem))
    BY <1>1, <1>2, <1>5, ResetMaySave
  <2>2. accepted_octets' \in 0 .. L
    BY <1>1, <1>2 DEF TypeOK
  <2> QED BY <1>1, <1>5, <2>1, <2>2, SavePreserves
<1> QED BY <1>3, <1>4, <1>5 DEF VerifyStaged

LEMMA CommitVerifiedInv ==
  ASSUME RetryInPlace = FALSE, StoreInv, CommitVerified
  PROVE  StoreInv'
<1>1. /\ pc = "idle" /\ mem.status = "Verified"
      /\ UNCHANGED <<slots, accepted_octets>>
  BY DEF CommitVerified
<1>2. /\ mem \in State /\ mem = Latest /\ complete = NoFile /\ TypeOK
      /\ Latest' = Latest
  BY <1>1, IdleFacts DEF StoreInv, Latest
<1>3. Accepts(Bytes(part))
  BY <1>1, <1>2 DEF StoreInv, NewestSlotInv
<1>4. Bytes(part) \in Seq(Octets) /\ Bytes(part) # NoFile
  BY <1>2, BytesType, ConstantsAssumption DEF TypeOK
<1>5. CASE /\ complete' = Bytes(part) /\ part' = NoFile /\ pc' = "CommitBytes"
           /\ UNCHANGED <<mem, disturbances>>
  <2>1. TypeOK'
    BY <1>1, <1>2, <1>4, <1>5 DEF TypeOK
  <2>2. FilesInv'
    BY <1>3, <1>5, EmptySeq, LengthOfEncoded DEF FilesInv, Bytes, Accepts
  <2>3. NewestSlotInv'
    BY <1>1, <1>2, <1>4, <1>5 DEF NewestSlotInv
  <2>4. HandleInv'
    BY <1>1, <1>2, <1>4, <1>5 DEF HandleInv
  <2> QED BY <2>1, <2>2, <2>3, <2>4 DEF StoreInv
<1>6. CASE part' = Bytes(part) /\ Raise(mem) /\ Spend(1) /\ UNCHANGED complete
  <2>1. pc' = "closed" /\ mem' = Fresh
    BY <1>6 DEF Raise
  <2>2. disturbances' \in 0 .. MaxDisturbances
    BY <1>2, <1>6, SpendType DEF TypeOK
  <2>3. TypeOK'
    BY <1>1, <1>2, <1>4, <1>6, <2>1, <2>2, FreshIsState DEF TypeOK
  <2>4. Bytes(part)' = Bytes(part)
    BY <1>4, <1>6 DEF Bytes
  <2>5. FilesInv' /\ NewestSlotInv'
    BY <1>2, <1>6, <2>4 DEF StoreInv, FilesInv, NewestSlotInv
  <2> QED BY <2>1, <2>3, <2>5 DEF StoreInv, HandleInv
<1> QED BY <1>5, <1>6 DEF CommitVerified

LEMMA SaveCommittedInv ==
  ASSUME RetryInPlace = FALSE, StoreInv, SaveCommitted
  PROVE  StoreInv'
<1> DEFINE s == Moved(mem, "Committed", L)
<1>1. /\ pc = "CommitBytes" /\ Save(s, 0)
      /\ UNCHANGED <<part, complete>> /\ accepted_octets' \in 0 .. L
  BY DEF SaveCommitted, StoreInv, TypeOK
<1>2. complete # NoFile /\ mem \in State
  BY <1>1 DEF StoreInv, HandleInv, TypeOK
<1>3. /\ s \in State /\ s.sequence = mem.sequence
      /\ s.durable_prefix_octets = L /\ s.status = "Committed"
  <2>1. "Committed" \in Status /\ L \in 0 .. L
    BY LengthOfEncoded DEF Status
  <2> QED BY <1>2, <2>1, MovedType
<1> HIDE DEF s
<1>4. Settled(s)
  BY <1>2, <1>3 DEF Settled, ReconciledStatus, HeldOctets
<1>5. MaySave(s)
  BY <1>2, <1>3, <1>4 DEF MaySave
<1> QED BY <1>1, <1>5, SavePreserves

\* Every step of the store preserves the invariant.
LEMMA NextInv ==
  ASSUME RetryInPlace = FALSE, StoreInv, [Next]_vars
  PROVE  StoreInv'
<1>1. CASE Open
  BY <1>1, OpenInv
<1>2. CASE AcceptDescriptor
  BY <1>2, AcceptDescriptorInv
<1>3. CASE \E offset \in 0 .. L, payload \in Payloads :
              AcceptData(offset, payload)
  BY <1>3, AcceptDataInv
<1>4. CASE \E offset \in 0 .. L, payload \in Payloads :
              AppendInterrupted(offset, payload)
  BY <1>4, AppendInterruptedInv
<1>5. CASE SavePrefix
  BY <1>5, SavePrefixInv
<1>6. CASE VerifyStaged
  BY <1>6, VerifyStagedInv
<1>7. CASE SaveQuarantine
  BY <1>7, SaveQuarantineInv
<1>8. CASE CommitVerified
  BY <1>8, CommitVerifiedInv
<1>9. CASE SaveCommitted
  BY <1>9, SaveCommittedInv
<1>10. CASE \E id \in Receipts : CommitReceipt(id)
  BY <1>10, CommitReceiptInv
<1>11. CASE FailAtBoundary
  BY <1>11, ClosingInv DEF FailAtBoundary, Raise
<1>12. CASE Crash
  BY <1>12, ClosingInv DEF Crash
<1>13. CASE UNCHANGED vars
  <2>1. /\ UNCHANGED <<slots, part, complete, mem, pc, accepted_octets>>
        /\ UNCHANGED disturbances
    BY <1>13 DEF vars
  <2>2. TypeOK'
    BY <2>1 DEF StoreInv, TypeOK
  <2>3. FilesInv' /\ NewestSlotInv'
    BY <2>1 DEF StoreInv, FilesInv, NewestSlotInv, Latest, Bytes
  <2>4. HandleInv'
    BY <2>1 DEF StoreInv, HandleInv, Settled, ReconciledStatus, HeldOctets,
                Latest, Bytes
  <2> QED BY <2>2, <2>3, <2>4 DEF StoreInv
<1> QED
  BY <1>1, <1>2, <1>3, <1>4, <1>5, <1>6, <1>7, <1>8, <1>9, <1>10, <1>11,
     <1>12, <1>13 DEF Next

-----------------------------------------------------------------------------
(* The safety theorems.                                                    *)

\* The inductive invariant holds in every reachable state.
THEOREM StoreInvariant ==
  ASSUME RetryInPlace = FALSE
  PROVE  Spec => []StoreInv
<1>1. StoreInv /\ [Next]_vars => StoreInv'
  BY NextInv
<1> QED BY <1>1, InitInv, PTL DEF Spec

\* Every variable keeps its type, whatever fails and whenever it fails.
THEOREM TypeCorrect ==
  ASSUME RetryInPlace = FALSE
  PROVE  Spec => []TypeOK
<1>1. StoreInv => TypeOK
  BY DEF StoreInv
<1> QED BY <1>1, StoreInvariant, PTL

\* Only exact, decodable bytes are ever committed (commit_verified,
\* reconcile): no crash, torn append or corrupted payload leads to another
\* complete file, or to a Committed status without one.
THEOREM CommitsAreExact ==
  ASSUME RetryInPlace = FALSE
  PROVE  Spec => []CommitIntegrity
<1>1. StoreInv => CommitIntegrity
  <2> SUFFICES ASSUME StoreInv PROVE CommitIntegrity
    OBVIOUS
  <2>1. mem.status = "Committed" => complete # NoFile
    BY DEF StoreInv, HandleInv, NewestSlotInv, Fresh
  <2> QED BY <2>1 DEF StoreInv, FilesInv, NewestSlotInv, CommitIntegrity, Accepts
<1> QED BY <1>1, StoreInvariant, PTL

\* No reachable set of files makes open_with_fault refuse the store.
THEOREM StoreAlwaysReopens ==
  ASSUME RetryInPlace = FALSE
  PROVE  Spec => []AlwaysReopens
<1>1. StoreInv => AlwaysReopens
  BY DEF StoreInv, FilesInv, NewestSlotInv, AlwaysReopens, Recoverable, Accepts
<1> QED BY <1>1, StoreInvariant, PTL

\* An operation that returned leaves nothing that a crash could take back.
THEOREM ReturnsAreDurable ==
  ASSUME RetryInPlace = FALSE
  PROVE  Spec => []ReturnIsDurable
<1>1. StoreInv => ReturnIsDurable
  <2> SUFFICES ASSUME StoreInv, pc = "idle"
               PROVE  /\ mem = Latest
                      /\ Recoverable(mem)
                      /\ Snapshot(Reconciled(mem)) = Snapshot(mem)
    BY DEF ReturnIsDurable
  <2>1. mem \in State /\ mem = Latest /\ Settled(mem)
    BY IdleFacts
  <2>2. Recoverable(mem)
    BY <2>1 DEF StoreInv, FilesInv, NewestSlotInv, Recoverable, Accepts
  <2> QED BY <2>1, <2>2, SettledSaved
<1> QED BY <1>1, StoreInvariant, PTL

\* A promoted file is never touched again: no later operation, failure or
\* reopening replaces it (commit_verified).
THEOREM CommittedNeverChanges ==
  ASSUME RetryInPlace = FALSE
  PROVE  Spec => CommittedImmutable
<1>1. StoreInv /\ [Next]_vars
        => [complete # NoFile => complete' = complete]_complete
  <2> SUFFICES ASSUME StoreInv, [Next]_vars, complete # NoFile
               PROVE  complete' = complete
    OBVIOUS
  <2>1. ~CommitVerified
    BY IdleFacts DEF CommitVerified
  <2> QED
    BY <2>1 DEF Next, vars, Open, AcceptDescriptor, AcceptData,
       AppendInterrupted, SavePrefix, VerifyStaged, SaveQuarantine,
       SaveCommitted, CommitReceipt, FailAtBoundary, Crash, diskVars
<1> QED BY <1>1, StoreInvariant, PTL DEF Spec, CommittedImmutable

\* Staged bytes are extended, promoted or, when full and unusable, discarded;
\* nothing else ever happens to them.
THEOREM StagedBytesKept ==
  ASSUME RetryInPlace = FALSE
  PROVE  Spec => RecoverablePrefixKept
<1> DEFINE Kept ==
      \/ IsExtension(Bytes(part'), Bytes(part))
      \/ complete = NoFile /\ complete' = part
      \/ Len(part) = L /\ ~(part = Encoded /\ Decodes)
<1>1. StoreInv /\ [Next]_vars => [Kept]_<<part, complete>>
  <2> SUFFICES ASSUME StoreInv, [Next]_vars, ~UNCHANGED <<part, complete>>
               PROVE  Kept
    OBVIOUS
  <2>1. Bytes(part) \in Seq(Octets) /\ TypeOK
    BY BytesType DEF StoreInv, TypeOK
  <2>2. IsExtension(Bytes(part), Bytes(part))
    BY <2>1, SubSeqFull, LenProperties DEF IsExtension
  <2>3. ASSUME NEW offset \in 0 .. L, NEW payload \in Payloads,
               MayAppend(offset, payload),
               NEW tail \in Seq(Octets), part' = Bytes(part) \o tail
        PROVE  Kept
    <3>1. part' \in Seq(Octets) /\ IsExtension(part', Bytes(part))
      BY <2>1, <2>3, AppendType
    <3> QED BY <3>1, ConstantsAssumption DEF Bytes
  <2>4. CASE \E offset \in 0 .. L, payload \in Payloads :
                AcceptData(offset, payload)
    BY <2>1, <2>3, <2>4, SuffixType DEF AcceptData
  <2>5. CASE \E offset \in 0 .. L, payload \in Payloads :
                AppendInterrupted(offset, payload)
    <3>1. PICK offset \in 0 .. L, payload \in Payloads :
                AppendInterrupted(offset, payload)
      BY <2>5
    <3> DEFINE suffix == Suffix(offset, payload)
    <3>2. PICK n \in 0 .. Len(suffix) - 1 :
                part' = Bytes(part) \o SubSeq(suffix, 1, n)
      BY <3>1 DEF AppendInterrupted
    <3>3. MayAppend(offset, payload)
      BY <3>1 DEF AppendInterrupted
    <3>4. suffix \in Seq(Octets) /\ Len(suffix) \in 1 .. L
      BY <2>1, <3>3, SuffixType
    <3>5. \A i \in 1 .. n : suffix[i] \in Octets
      BY <3>2, <3>4, ElementOfSeq, LengthOfEncoded
    <3>6. SubSeq(suffix, 1, n) \in Seq(Octets)
      BY <3>2, <3>4, <3>5, SubSeqProperties, LengthOfEncoded
    <3> QED BY <2>3, <3>2, <3>3, <3>6
  <2>6. CASE VerifyStaged
    <3>1. pc = "idle" /\ mem.status # "Committed"
          /\ mem.durable_prefix_octets = L /\ complete' = complete
      BY <2>6 DEF VerifyStaged
    <3>2. complete = NoFile /\ HeldOctets = L
      BY <3>1, IdleFacts
    <3>3. part # NoFile /\ ~Accepts(Bytes(part))
      BY <2>6, <3>1 DEF VerifyStaged
    <3> QED BY <3>2, <3>3 DEF HeldOctets, Bytes, Accepts
  <2>7. CASE CommitVerified
    <3>1. pc = "idle" /\ mem.status = "Verified"
      BY <2>7 DEF CommitVerified
    <3>2. complete = NoFile
      BY <3>1, IdleFacts
    <3>3. CASE complete' = Bytes(part) /\ part' = NoFile
      <4>1. CASE part = NoFile
        BY <2>1, <2>2, <3>3, <4>1 DEF Bytes
      <4>2. CASE part # NoFile
        BY <3>2, <3>3, <4>2 DEF Bytes
      <4> QED BY <4>1, <4>2
    <3>4. CASE part' = Bytes(part)
      BY <2>1, <2>2, <3>4, ConstantsAssumption DEF Bytes
    <3> QED BY <2>7, <3>3, <3>4 DEF CommitVerified
  <2> QED
    BY <2>4, <2>5, <2>6, <2>7 DEF Next, vars, Open, AcceptDescriptor,
       SavePrefix, SaveQuarantine, SaveCommitted, CommitReceipt,
       FailAtBoundary, Crash, diskVars
<1> QED BY <1>1, StoreInvariant, PTL DEF Spec, RecoverablePrefixKept

-----------------------------------------------------------------------------
(* Refinement: the store implements DurableTransfer.                       *)

Staged == IF complete # NoFile THEN complete ELSE Bytes(part)

\* A save changes neither file; all it can show is that the descriptor is now
\* accepted, or one more receipt.
LEMMA SaveShows ==
  ASSUME RetryInPlace = FALSE, StoreInv, pc # "closed",
         NEW s \in State, s.sequence = mem.sequence, NEW cost \in Nat,
         Save(s, cost), UNCHANGED <<part, complete>>
  PROVE  /\ Staged' = Staged
         /\ Latest = mem
         /\ \/ Latest' = Latest
            \/ /\ Latest'.status = s.status
               /\ Latest'.receipt_ids = s.receipt_ids
<1>1. TypeOK /\ mem = Latest
  BY DEF StoreInv, HandleInv
<1>2. Latest' = Latest \/ Latest' = Persisted(s)
  BY <1>1, SaveOutcome
<1>3. Persisted(s).status = s.status /\ Persisted(s).receipt_ids = s.receipt_ids
  BY DEF Persisted, State
<1> QED BY <1>1, <1>2, <1>3 DEF Staged, Bytes

\* The abstract step, or stutter, of a step that touches neither file.
LEMMA QuietStep ==
  ASSUME UNCHANGED <<part, complete>>,
         \/ Latest' = Latest
         \/ /\ Latest'.status # "Absent"
            /\ Latest'.receipt_ids = Latest.receipt_ids
         \/ /\ (Latest'.status = "Absent") <=> (Latest.status = "Absent")
            /\ \E id \in Receipts \ Latest.receipt_ids :
                  Latest'.receipt_ids = Latest.receipt_ids \union {id}
         \/ /\ Latest'.status = "Absent" /\ Latest.status = "Absent"
            /\ Latest'.receipt_ids = Latest.receipt_ids
  PROVE  [Transfer!Next]_(Transfer!transferVars)
<1>1. Bytes(part)' = Bytes(part)
  BY DEF Bytes
<1>2. CASE /\ (Latest'.status # "Absent") = (Latest.status # "Absent")
           /\ Latest'.receipt_ids = Latest.receipt_ids
  BY <1>1, <1>2 DEF Transfer!transferVars
<1>3. CASE Latest'.status # "Absent" /\ Latest.status = "Absent"
           /\ Latest'.receipt_ids = Latest.receipt_ids
  <2>1. Transfer!Accept
    BY <1>1, <1>3 DEF Transfer!Accept
  <2> QED BY <2>1 DEF Transfer!Next
<1>4. CASE /\ (Latest'.status = "Absent") <=> (Latest.status = "Absent")
           /\ \E id \in Receipts \ Latest.receipt_ids :
                 Latest'.receipt_ids = Latest.receipt_ids \union {id}
  <2>1. Transfer!RetainReceipt
    BY <1>1, <1>4 DEF Transfer!RetainReceipt
  <2> QED BY <2>1 DEF Transfer!Next
<1> QED BY <1>2, <1>3, <1>4

\* Appending bytes is receiving them, if any reached the file.
LEMMA AppendStep ==
  ASSUME StoreInv, NEW offset \in 0 .. L, NEW payload \in Payloads,
         MayAppend(offset, payload), UNCHANGED <<slots, complete>>,
         NEW tail \in Seq(Octets), Len(tail) <= Len(Suffix(offset, payload)),
         part' = Bytes(part) \o tail
  PROVE  [Transfer!Next]_(Transfer!transferVars)
<1>1. /\ complete = NoFile /\ Latest = mem /\ Latest' = Latest
      /\ mem.status # "Absent"
      /\ Bytes(part) \in Seq(Octets)
  BY BeforeAppend DEF Latest
<1>2. /\ part' \in Seq(Octets)
      /\ Len(part') = Len(Bytes(part)) + Len(tail)
      /\ IsExtension(part', Bytes(part))
  BY <1>1, AppendType
<1>3. Bytes(part)' = part'
  BY <1>2, ConstantsAssumption DEF Bytes
<1>4. Len(part') <= L
  BY <1>3, AppendKeepsFiles DEF FilesInv
<1>5. CASE tail = << >>
  <2>1. Bytes(part)' = Bytes(part)
    BY <1>1, <1>3, <1>5, ConcatEmptySeq
  <2> QED BY <1>1, <2>1 DEF Transfer!transferVars
<1>6. CASE tail # << >>
  <2>1. Len(Bytes(part)) < Len(part')
    BY <1>1, <1>2, <1>6, EmptySeq, LenProperties
  <2>2. Transfer!Receive
    BY <1>1, <1>2, <1>3, <1>4, <2>1 DEF Transfer!Receive, IsExtension, L
  <2> QED BY <2>2 DEF Transfer!Next
<1> QED BY <1>5, <1>6

\* A save by an operation that does not touch the receipts.
LEMMA SaveStep ==
  ASSUME RetryInPlace = FALSE, StoreInv, pc # "closed",
         NEW s \in State, s.sequence = mem.sequence, NEW cost \in Nat,
         s.status # "Absent", s.receipt_ids = mem.receipt_ids,
         Save(s, cost), UNCHANGED <<part, complete>>
  PROVE  [Transfer!Next]_(Transfer!transferVars)
  BY SaveShows, QuietStep

LEMMA StepSimulation ==
  ASSUME RetryInPlace = FALSE, StoreInv, [Next]_vars
  PROVE  [Transfer!Next]_(Transfer!transferVars)
<1>0. TypeOK /\ mem \in State
  BY DEF StoreInv, TypeOK
<1>1. CASE Open
  <2>1. UNCHANGED <<part, complete>> /\ Latest \in State
    BY <1>0, <1>1 DEF Open, TypeOK, Latest
  <2>2. CASE slots' = slots
    BY <2>1, <2>2, QuietStep DEF Latest
  <2>3. CASE slots' # slots
    <3>1. /\ slots' = Written(Reconciled(Latest))
          /\ Latest.sequence < MaxSequence
      BY <1>1, <2>3 DEF Open
    <3>2. /\ Reconciled(Latest) \in State
          /\ Reconciled(Latest).sequence = Latest.sequence
          /\ Reconciled(Latest).status = ReconciledStatus(Latest)
          /\ Reconciled(Latest).receipt_ids = Latest.receipt_ids
      BY <2>1, ReconciledType DEF StoreInv, Reconciled, Moved, State
    <3>3. Latest' = Persisted(Reconciled(Latest))
      BY <1>0, <3>1, <3>2, WrittenIsLatest
    <3>4. /\ Latest'.status = ReconciledStatus(Latest)
          /\ Latest'.receipt_ids = Latest.receipt_ids
      BY <3>2, <3>3 DEF Persisted, State
    <3>5. Latest.status = "Absent" => ReconciledStatus(Latest) = "Absent"
      BY DEF StoreInv, NewestSlotInv, ReconciledStatus
    <3>6. Latest.status # "Absent" => ReconciledStatus(Latest) # "Absent"
      BY DEF ReconciledStatus, Received
    <3> QED BY <2>1, <3>4, <3>5, <3>6, QuietStep
  <2> QED BY <2>2, <2>3
<1>2. CASE AcceptDescriptor
  <2> DEFINE s == [mem EXCEPT !.status =
                     IF L = 0 THEN "CompleteUnverified" ELSE "Offered"]
  <2>1. pc = "idle" /\ Save(s, 0) /\ UNCHANGED <<part, complete>>
    BY <1>2 DEF AcceptDescriptor
  <2>2. /\ s \in State /\ s.sequence = mem.sequence
        /\ s.status # "Absent" /\ s.receipt_ids = mem.receipt_ids
    BY <1>0 DEF State, Status
  <2> HIDE DEF s
  <2> QED BY <2>1, <2>2, SaveStep
<1>3. CASE \E offset \in 0 .. L, payload \in Payloads :
              AcceptData(offset, payload)
  <2>1. PICK offset \in 0 .. L, payload \in Payloads :
              AcceptData(offset, payload)
    BY <1>3
  <2>2. MayAppend(offset, payload) /\ UNCHANGED <<slots, complete>>
        /\ part' = Bytes(part) \o Suffix(offset, payload)
    BY <2>1 DEF AcceptData
  <2>3. /\ Suffix(offset, payload) \in Seq(Octets)
        /\ Len(Suffix(offset, payload)) <= Len(Suffix(offset, payload))
    BY <1>0, <2>2, SuffixType, LengthOfEncoded
  <2> QED BY <2>2, <2>3, AppendStep
<1>4. CASE \E offset \in 0 .. L, payload \in Payloads :
              AppendInterrupted(offset, payload)
  <2>1. PICK offset \in 0 .. L, payload \in Payloads :
              AppendInterrupted(offset, payload)
    BY <1>4
  <2> DEFINE suffix == Suffix(offset, payload)
  <2>2. MayAppend(offset, payload) /\ UNCHANGED <<slots, complete>>
    BY <2>1 DEF AppendInterrupted
  <2>3. PICK n \in 0 .. Len(suffix) - 1 :
              part' = Bytes(part) \o SubSeq(suffix, 1, n)
    BY <2>1 DEF AppendInterrupted
  <2>4. suffix \in Seq(Octets) /\ Len(suffix) \in 1 .. L
    BY <1>0, <2>2, SuffixType
  <2>5. \A i \in 1 .. n : suffix[i] \in Octets
    BY <2>3, <2>4, ElementOfSeq, LengthOfEncoded
  <2>6. /\ SubSeq(suffix, 1, n) \in Seq(Octets)
        /\ Len(SubSeq(suffix, 1, n)) = IF 1 <= n THEN n - 1 + 1 ELSE 0
    BY <2>3, <2>4, <2>5, SubSeqProperties, LengthOfEncoded
  <2>7. Len(SubSeq(suffix, 1, n)) <= Len(suffix)
    BY <2>3, <2>4, <2>6, LengthOfEncoded
  <2> QED BY <2>2, <2>3, <2>6, <2>7, AppendStep
<1>5. CASE SavePrefix
  <2> DEFINE prefix == mem.durable_prefix_octets + accepted_octets
             s == Moved(mem, Received(prefix), prefix)
  <2>1. pc = "PrefixBytes" /\ Save(s, 0) /\ UNCHANGED <<part, complete>>
    BY <1>5 DEF SavePrefix
  <2>2. Len(Bytes(part)) = prefix /\ accepted_octets > 0
        /\ accepted_octets \in 0 .. L
    BY <1>0, <2>1 DEF StoreInv, HandleInv, TypeOK
  <2>3. prefix \in 0 .. L
    BY <1>0, <2>2, LengthOfEncoded DEF StoreInv, FilesInv, State
  <2>4. Received(prefix) \in Status /\ Received(prefix) # "Absent"
    BY DEF Received, Status
  <2> HIDE DEF prefix
  <2>5. /\ s \in State /\ s.sequence = mem.sequence
        /\ s.status # "Absent" /\ s.receipt_ids = mem.receipt_ids
    BY <1>0, <2>3, <2>4, MovedType
  <2> HIDE DEF s
  <2> QED BY <2>1, <2>5, SaveStep
<1>6. ResetToOffered(mem) \in State
      /\ ResetToOffered(mem).sequence = mem.sequence
      /\ ResetToOffered(mem).status # "Absent"
      /\ ResetToOffered(mem).receipt_ids = mem.receipt_ids
  <2>1. "Offered" \in Status /\ 0 \in 0 .. L
    BY LengthOfEncoded DEF Status
  <2> QED BY <1>0, <2>1, MovedType DEF ResetToOffered
<1>7. CASE VerifyStaged
  <2> DEFINE repeat == IF mem.status = "Verified" THEN 1 ELSE 0
             s == [mem EXCEPT !.status = "Verified"]
  <2>1. /\ pc = "idle" /\ mem.status # "Committed"
        /\ mem.durable_prefix_octets = L
        /\ complete' = complete
        /\ repeat \in Nat
    BY <1>7 DEF VerifyStaged
  <2>2. complete = NoFile /\ HeldOctets = L
    BY <2>1, IdleFacts
  <2>3. /\ s \in State /\ s.sequence = mem.sequence
        /\ s.status # "Absent" /\ s.receipt_ids = mem.receipt_ids
    BY <1>0 DEF State, Status
  <2> HIDE DEF s
  <2>4. CASE Save(s, repeat) /\ UNCHANGED part
    BY <2>1, <2>3, <2>4, SaveStep
  <2>5. CASE ~Accepts(Bytes(part)) /\ part' = NoFile /\ UNCHANGED slots
    <3>1. Bytes(part)' = << >> /\ Latest' = Latest
      BY <2>5 DEF Bytes, Latest
    <3>2. Len(Bytes(part)) = Len(Encoded)
      BY <2>2 DEF HeldOctets, L
    <3>3. Transfer!Reject
      BY <2>1, <2>2, <2>5, <3>1, <3>2 DEF Transfer!Reject, Accepts
    <3> QED BY <3>3 DEF Transfer!Next
  <2>6. CASE Save(ResetToOffered(mem), 0) /\ UNCHANGED part
    BY <1>6, <2>1, <2>6, SaveStep
  <2> QED BY <1>7, <2>4, <2>5, <2>6 DEF VerifyStaged, s
<1>8. CASE SaveQuarantine
  BY <1>6, <1>8, SaveStep DEF SaveQuarantine
<1>9. CASE CommitVerified
  <2>1. /\ pc = "idle" /\ mem.status = "Verified" /\ UNCHANGED slots
    BY <1>9 DEF CommitVerified
  <2>2. /\ mem = Latest /\ Latest' = Latest /\ complete = NoFile
        /\ Accepts(Bytes(part))
    BY <2>1, IdleFacts DEF Latest, StoreInv, NewestSlotInv
  <2>3. Bytes(part) # NoFile
    BY <1>0, BytesType, ConstantsAssumption DEF TypeOK
  <2>4. CASE complete' = Bytes(part)
    <3>1. Transfer!Commit
      BY <2>1, <2>2, <2>3, <2>4 DEF Transfer!Commit, Accepts
    <3> QED BY <3>1 DEF Transfer!Next
  <2>5. CASE part' = Bytes(part) /\ UNCHANGED complete
    <3>1. Bytes(part)' = Bytes(part)
      BY <2>3, <2>5 DEF Bytes
    <3> QED BY <2>2, <2>5, <3>1 DEF Transfer!transferVars
  <2> QED BY <1>9, <2>4, <2>5 DEF CommitVerified
<1>10. CASE SaveCommitted
  <2> DEFINE s == Moved(mem, "Committed", L)
  <2>1. pc = "CommitBytes" /\ Save(s, 0) /\ UNCHANGED <<part, complete>>
    BY <1>10 DEF SaveCommitted
  <2>2. "Committed" \in Status /\ L \in 0 .. L
    BY LengthOfEncoded DEF Status
  <2>3. /\ s \in State /\ s.sequence = mem.sequence
        /\ s.status # "Absent" /\ s.receipt_ids = mem.receipt_ids
    BY <1>0, <2>2, MovedType
  <2> HIDE DEF s
  <2> QED BY <2>1, <2>3, SaveStep
<1>11. CASE \E id \in Receipts : CommitReceipt(id)
  <2>1. PICK id \in Receipts : CommitReceipt(id)
    BY <1>11
  <2> DEFINE s == [mem EXCEPT !.receipt_ids = @ \union {id}]
  <2>2. /\ pc = "idle" /\ id \notin mem.receipt_ids
        /\ Save(s, 0) /\ UNCHANGED <<part, complete>>
    BY <2>1 DEF CommitReceipt
  <2>3. /\ s \in State /\ s.sequence = mem.sequence
        /\ s.status = mem.status
        /\ s.receipt_ids = mem.receipt_ids \union {id}
    BY <1>0 DEF State
  <2> HIDE DEF s
  <2>4. /\ Latest = mem
        /\ \/ Latest' = Latest
           \/ Latest'.status = s.status /\ Latest'.receipt_ids = s.receipt_ids
    BY <2>2, <2>3, SaveShows
  <2> QED BY <2>2, <2>3, <2>4, QuietStep
<1>12. CASE FailAtBoundary \/ Crash \/ UNCHANGED vars
  <2>1. UNCHANGED <<slots, part, complete>>
    BY <1>12 DEF FailAtBoundary, Crash, vars, diskVars
  <2> QED BY <2>1, QuietStep DEF Latest
<1> QED
  BY <1>1, <1>2, <1>3, <1>4, <1>5, <1>7, <1>8, <1>9, <1>10, <1>11, <1>12
  DEF Next

\* RepresentationStore implements DurableTransfer: whatever stops, fails or is
\* repeated, what the disk shows is a prefix that grows, one atomic commit of
\* the exact bytes and a growing set of receipts.
THEOREM StoreImplementsTransfer ==
  ASSUME RetryInPlace = FALSE
  PROVE  Spec => ImplementsTransfer
<1>1. Init => Transfer!Init
  <2> SUFFICES ASSUME Init PROVE Transfer!Init
    OBVIOUS
  <2>1. Latest = Fresh
    BY DEF Init, Latest, Fresh
  <2> QED BY <2>1 DEF Init, Transfer!Init, Fresh, Bytes
<1>2. StoreInv /\ [Next]_vars => [Transfer!Next]_(Transfer!transferVars)
  BY StepSimulation
<1> QED
  BY <1>1, <1>2, StoreInvariant, PTL DEF Spec, ImplementsTransfer, Transfer!Spec
-----------------------------------------------------------------------------
(* The durable status follows the receiver's state machine.                *)

\* What the status of the newest slot says about how far the files are.  A
\* crash between a file and its save is a legal move only because of it.
StatusInv ==
    /\ complete # NoFile => Latest.status \in {"Verified", "Committed"}
    /\ Latest.status = "Partial" => Len(Bytes(part)) > 0
    /\ Latest.status = "CompleteUnverified" => part = NoFile \/ Len(part) = L
    /\ pc = "QuarantineBytes" => mem.status # "Verified"

\* A save moves the newest slot to the status it saves or leaves it alone.
LEMMA SaveMoves ==
  ASSUME RetryInPlace = FALSE, StoreInv, StatusInv, pc # "closed",
         NEW s \in State, s.sequence = mem.sequence, NEW cost \in Nat,
         Save(s, cost), UNCHANGED <<part, complete>>,
         \/ s.status = mem.status
         \/ Transition(mem.status, s.status)
         \/ /\ L = 0
            /\ mem.status \in {"Absent", "Offered"}
            /\ s.status \in {"CompleteUnverified", "Verified"}
         \/ /\ mem.status = "CompleteUnverified"
            /\ s.status = "Offered"
            /\ part = NoFile,
         complete # NoFile => s.status \in {"Verified", "Committed"},
         s.status = "Partial" => Len(Bytes(part)) > 0,
         s.status = "CompleteUnverified" => part = NoFile \/ Len(part) = L
  PROVE  StatusMove /\ StatusInv'
<1>1. Latest = mem /\ (Latest' = Latest \/ Latest'.status = s.status)
  BY SaveShows
<1>2. pc' \in {"closed", "idle"}
  BY SaveOutcome DEF StoreInv, HandleInv
<1>3. StatusMove
  BY <1>1 DEF StatusMove
<1>4. StatusInv'
  BY <1>1, <1>2 DEF StatusInv, Bytes
<1> QED BY <1>3, <1>4

\* Files that stay put under a slot that stays put keep StatusInv.
LEMMA QuietStatus ==
  ASSUME StatusInv, UNCHANGED <<slots, part, complete>>,
         pc' \in {"closed", "idle"}
  PROVE  StatusMove /\ StatusInv'
  BY DEF StatusInv, StatusMove, Latest, Bytes

LEMMA OpenMoves ==
  ASSUME StoreInv, StatusInv, Open
  PROVE  StatusMove /\ StatusInv'
<1>1. /\ TypeOK /\ FilesInv /\ NewestSlotInv /\ Latest \in State
      /\ UNCHANGED <<part, complete>> /\ pc' \in {"closed", "idle"}
  BY DEF Open, StoreInv, TypeOK, Latest
<1>2. CASE slots' = slots
  BY <1>1, <1>2, QuietStatus
<1>3. CASE slots' # slots
  <2>1. slots' = Written(Reconciled(Latest)) /\ Latest.sequence < MaxSequence
    BY <1>3 DEF Open
  <2>2. /\ Reconciled(Latest) \in State
        /\ Reconciled(Latest).sequence = Latest.sequence
        /\ Reconciled(Latest).status = ReconciledStatus(Latest)
    BY <1>1, ReconciledType
  <2>3. Latest' = Persisted(Reconciled(Latest))
    BY <1>1, <2>1, <2>2, WrittenIsLatest
  <2>4. Latest'.status = ReconciledStatus(Latest)
    BY <2>2, <2>3 DEF Persisted, State
  <2>5. Latest.status \in Status
    BY <1>1 DEF State
  <2>6. CASE complete # NoFile
    <3>1. /\ Latest'.status = "Committed"
          /\ Latest.status \in {"Verified", "Committed"}
      BY <2>4, <2>6 DEF ReconciledStatus, StatusInv
    <3>2. StatusMove
      BY <3>1 DEF StatusMove, Transition
    <3>3. StatusInv'
      BY <1>1, <3>1 DEF StatusInv
    <3> QED BY <3>2, <3>3
  <2>7. CASE complete = NoFile
    <3>1. HeldOctets = Len(Bytes(part)) /\ HeldOctets \in 0 .. L
      BY <1>1, <2>7, LengthOfEncoded, BytesType
      DEF HeldOctets, FilesInv, TypeOK
    <3>2. part # NoFile => Bytes(part) = part
      BY DEF Bytes
    <3>3. StatusInv'
      BY <1>1, <2>4, <2>7, <3>1, <3>2, LengthOfEncoded
      DEF StatusInv, ReconciledStatus, Received, Bytes
    <3>4. part = NoFile => HeldOctets = 0
      BY <1>1, <3>1, BytesType DEF TypeOK
    <3>5. Latest.status = "Verified" => Latest'.status = "Verified"
      BY <1>1, <2>4, <2>7, <3>1
      DEF NewestSlotInv, Accepts, ReconciledStatus, L
    <3>6. Latest.status # "Committed"
      BY <1>1, <2>7 DEF NewestSlotInv
    <3>7. StatusMove
      BY <2>4, <2>5, <2>7, <3>1, <3>2, <3>4, <3>5, <3>6, LengthOfEncoded
      DEF StatusMove, StatusInv, Transition, ReconciledStatus, Received, Status
    <3> QED BY <3>3, <3>7
  <2> QED BY <2>6, <2>7
<1> QED BY <1>2, <1>3

\* Bytes appended before their save do not contradict the slot.
LEMMA AppendMoves ==
  ASSUME StoreInv, StatusInv, NEW offset \in 0 .. L, NEW payload \in Payloads,
         MayAppend(offset, payload), UNCHANGED <<slots, complete>>,
         NEW tail \in Seq(Octets), Len(tail) <= Len(Suffix(offset, payload)),
         part' = Bytes(part) \o tail, pc' # "QuarantineBytes"
  PROVE  StatusMove /\ StatusInv'
<1>1. /\ complete = NoFile /\ Latest = mem /\ Latest' = Latest
      /\ Bytes(part) \in Seq(Octets)
      /\ Len(Bytes(part)) = mem.durable_prefix_octets
      /\ Len(Bytes(part)) < L
  BY BeforeAppend DEF Latest
<1>2. mem.status # "CompleteUnverified"
  <2> SUFFICES ASSUME mem.status = "CompleteUnverified" PROVE FALSE
    OBVIOUS
  <2>1. part = NoFile /\ Len(Bytes(part)) = 0
    BY <1>1, BytesType DEF StatusInv, StoreInv, TypeOK, Bytes
  <2>2. mem.status = ReconciledStatus(mem) /\ HeldOctets = 0 /\ L > 0
    BY <1>1, <2>1, IdleFacts, LengthOfEncoded DEF MayAppend, HeldOctets
  <2> QED BY <1>1, <2>2 DEF ReconciledStatus
<1>3. part' \in Seq(Octets) /\ Len(part') >= Len(Bytes(part))
  BY <1>1, AppendType, LenProperties DEF IsExtension
<1>4. Bytes(part)' = part'
  BY <1>3, ConstantsAssumption DEF Bytes
<1>5. StatusInv'
  BY <1>1, <1>2, <1>3, <1>4, LenProperties, LengthOfEncoded DEF StatusInv
<1> QED BY <1>1, <1>5 DEF StatusMove

LEMMA StepMoves ==
  ASSUME RetryInPlace = FALSE, StoreInv, StatusInv, [Next]_vars
  PROVE  StatusMove /\ StatusInv'
<1>0. TypeOK /\ FilesInv /\ mem \in State
  BY DEF StoreInv, TypeOK
<1>1. CASE Open
  BY <1>1, OpenMoves
<1>2. CASE AcceptDescriptor
  <2> DEFINE s == [mem EXCEPT !.status =
                     IF L = 0 THEN "CompleteUnverified" ELSE "Offered"]
  <2>1. /\ pc = "idle" /\ mem.status = "Absent"
        /\ Save(s, 0) /\ UNCHANGED <<part, complete>>
    BY <1>2 DEF AcceptDescriptor
  <2>2. /\ s \in State /\ s.sequence = mem.sequence
        /\ s.status = IF L = 0 THEN "CompleteUnverified" ELSE "Offered"
    BY <1>0 DEF State, Status
  <2>3. complete = NoFile
    BY <2>1, IdleFacts
  <2>4. L = 0 => part = NoFile \/ Len(part) = L
    BY <1>0, LenProperties DEF FilesInv, TypeOK, Bytes
  <2> HIDE DEF s
  <2> QED BY <2>1, <2>2, <2>3, <2>4, SaveMoves DEF Transition
<1>3. CASE \E offset \in 0 .. L, payload \in Payloads :
              AcceptData(offset, payload)
  <2>1. PICK offset \in 0 .. L, payload \in Payloads :
              AcceptData(offset, payload)
    BY <1>3
  <2>2. MayAppend(offset, payload) /\ UNCHANGED <<slots, complete>>
        /\ part' = Bytes(part) \o Suffix(offset, payload)
        /\ pc' # "QuarantineBytes"
    BY <2>1 DEF AcceptData
  <2>3. /\ Suffix(offset, payload) \in Seq(Octets)
        /\ Len(Suffix(offset, payload)) <= Len(Suffix(offset, payload))
    BY <1>0, <2>2, SuffixType, LengthOfEncoded
  <2> QED BY <2>2, <2>3, AppendMoves
<1>4. CASE \E offset \in 0 .. L, payload \in Payloads :
              AppendInterrupted(offset, payload)
  <2>1. PICK offset \in 0 .. L, payload \in Payloads :
              AppendInterrupted(offset, payload)
    BY <1>4
  <2> DEFINE suffix == Suffix(offset, payload)
  <2>2. MayAppend(offset, payload) /\ UNCHANGED <<slots, complete>>
        /\ pc' # "QuarantineBytes"
    BY <2>1 DEF AppendInterrupted, Raise
  <2>3. PICK n \in 0 .. Len(suffix) - 1 :
              part' = Bytes(part) \o SubSeq(suffix, 1, n)
    BY <2>1 DEF AppendInterrupted
  <2>4. suffix \in Seq(Octets) /\ Len(suffix) \in 1 .. L
    BY <1>0, <2>2, SuffixType
  <2>5. \A i \in 1 .. n : suffix[i] \in Octets
    BY <2>3, <2>4, ElementOfSeq, LengthOfEncoded
  <2>6. /\ SubSeq(suffix, 1, n) \in Seq(Octets)
        /\ Len(SubSeq(suffix, 1, n)) = IF 1 <= n THEN n - 1 + 1 ELSE 0
    BY <2>3, <2>4, <2>5, SubSeqProperties, LengthOfEncoded
  <2>7. Len(SubSeq(suffix, 1, n)) <= Len(suffix)
    BY <2>3, <2>4, <2>6, LengthOfEncoded
  <2> QED BY <2>2, <2>3, <2>6, <2>7, AppendMoves
<1>5. CASE SavePrefix
  <2> DEFINE prefix == mem.durable_prefix_octets + accepted_octets
             s == Moved(mem, Received(prefix), prefix)
  <2>1. pc = "PrefixBytes" /\ Save(s, 0) /\ UNCHANGED <<part, complete>>
    BY <1>5 DEF SavePrefix
  <2>2. /\ Len(Bytes(part)) = prefix /\ accepted_octets > 0
        /\ accepted_octets \in 0 .. L /\ complete = NoFile /\ mem = Latest
        /\ mem.status \in {"Offered", "Partial", "CompleteUnverified"}
    BY <1>0, <2>1 DEF StoreInv, HandleInv, TypeOK
  <2>3. prefix \in 1 .. L
    BY <1>0, <2>2, LengthOfEncoded DEF FilesInv, State
  <2>4. /\ Received(prefix) \in Status
        /\ Received(prefix) =
              IF prefix = L THEN "CompleteUnverified" ELSE "Partial"
    BY DEF Received, Status
  <2>5. part # NoFile /\ Bytes(part) = part
    BY <1>0, <2>2, <2>3, BytesType DEF Bytes, TypeOK
  <2>6. mem.status = "CompleteUnverified" => prefix = L
    BY <2>2, <2>5 DEF StatusInv
  <2> HIDE DEF prefix
  <2>7. prefix \in 0 .. L
    BY <2>3
  <2>8. s \in State /\ s.sequence = mem.sequence /\ s.status = Received(prefix)
    BY <1>0, <2>4, <2>7, MovedType
  <2> HIDE DEF s
  <2>9. s.status = mem.status \/ Transition(mem.status, s.status)
    BY <2>2, <2>4, <2>6, <2>8 DEF Transition
  <2>10. /\ s.status = "Partial" => Len(Bytes(part)) > 0
         /\ s.status = "CompleteUnverified" => Len(part) = L
         /\ s.status \in {"Partial", "CompleteUnverified"}
    BY <2>2, <2>3, <2>4, <2>5, <2>8, LengthOfEncoded
  <2> QED BY <2>1, <2>2, <2>8, <2>9, <2>10, SaveMoves
<1>6. /\ ResetToOffered(mem) \in State
      /\ ResetToOffered(mem).sequence = mem.sequence
      /\ ResetToOffered(mem).status = "Offered"
  <2>1. "Offered" \in Status /\ 0 \in 0 .. L
    BY LengthOfEncoded DEF Status
  <2> QED BY <1>0, <2>1, MovedType DEF ResetToOffered
<1>7. ASSUME pc # "closed", complete = NoFile, part = NoFile,
             mem.status # "Verified", UNCHANGED <<part, complete>>,
             Save(ResetToOffered(mem), 0)
      PROVE  StatusMove /\ StatusInv'
  <2>1. mem.status \in {"Absent", "Offered", "CompleteUnverified"}
    <3>1. mem = Latest /\ mem.status \in Status
      BY <1>0, <1>7 DEF StoreInv, HandleInv, State
    <3>2. mem.status # "Committed"
      BY <1>7, <3>1 DEF StoreInv, NewestSlotInv
    <3>3. mem.status # "Partial"
      BY <1>0, <1>7, <3>1, BytesType DEF StatusInv, TypeOK
    <3> QED BY <1>7, <3>1, <3>2, <3>3 DEF Status
  <2> QED BY <1>6, <1>7, <2>1, SaveMoves DEF Transition
<1>8. CASE VerifyStaged
  <2> DEFINE repeat == IF mem.status = "Verified" THEN 1 ELSE 0
             s == [mem EXCEPT !.status = "Verified"]
  <2>1. /\ pc = "idle" /\ mem.status # "Committed"
        /\ mem.durable_prefix_octets = L
        /\ complete' = complete
        /\ repeat \in Nat
    BY <1>8 DEF VerifyStaged
  <2>2. /\ complete = NoFile /\ HeldOctets = L /\ mem = Latest
        /\ L > 0 => mem.status = ReconciledStatus(mem)
    BY <2>1, IdleFacts
  <2>3. /\ s \in State /\ s.sequence = mem.sequence /\ s.status = "Verified"
    BY <1>0 DEF State, Status
  <2>4. mem.status \in {"Absent", "Offered", "CompleteUnverified", "Verified"}
    <3>1. mem.status # "Partial"
      BY <1>0, <2>2, LengthOfEncoded
      DEF ReconciledStatus, Received, StatusInv, FilesInv
    <3> QED BY <1>0, <2>1, <3>1 DEF State, Status
  <2>5. mem.status \in {"Absent", "Offered"} => L = 0
    <3>1. L > 0 => mem.status # "Absent"
      <4> SUFFICES ASSUME L > 0, mem.status = "Absent" PROVE FALSE
        OBVIOUS
      <4>1. Len(Bytes(part)) = 0
        BY <2>2 DEF StoreInv, NewestSlotInv
      <4> QED BY <2>2, <4>1 DEF HeldOctets
    <3>2. L > 0 => mem.status # "Offered"
      BY <2>2 DEF ReconciledStatus, Received
    <3> QED BY <3>1, <3>2, LengthOfEncoded
  <2>6. Accepts(Bytes(part)) \/ mem.status # "Verified"
    BY <2>2 DEF StoreInv, NewestSlotInv
  <2> HIDE DEF s
  <2>7. CASE Save(s, repeat) /\ UNCHANGED part
    BY <2>1, <2>2, <2>3, <2>4, <2>5, <2>7, SaveMoves DEF Transition
  <2>8. CASE /\ ~Accepts(Bytes(part)) /\ part' = NoFile
             /\ UNCHANGED <<slots, mem>>
    <3>1. Latest' = Latest /\ Bytes(part)' = << >>
      BY <2>8 DEF Latest, Bytes
    <3>2. StatusInv'
      BY <2>1, <2>2, <2>4, <2>6, <2>8, <3>1 DEF StatusInv
    <3> QED BY <3>1, <3>2 DEF StatusMove
  <2>9. CASE /\ ~Accepts(Bytes(part)) /\ part = NoFile
             /\ Save(ResetToOffered(mem), 0) /\ UNCHANGED part
    BY <1>7, <2>1, <2>2, <2>6, <2>9
  <2> QED BY <1>8, <2>7, <2>8, <2>9 DEF VerifyStaged, s
<1>9. CASE SaveQuarantine
  BY <1>7, <1>9 DEF SaveQuarantine, StoreInv, HandleInv, StatusInv
<1>10. CASE CommitVerified
  <2>1. /\ pc = "idle" /\ mem.status = "Verified" /\ UNCHANGED slots
        /\ pc' # "QuarantineBytes"
    BY <1>10 DEF CommitVerified, Raise
  <2>2. Latest.status = "Verified" /\ Latest' = Latest
    BY <2>1, IdleFacts DEF Latest
  <2> QED BY <2>1, <2>2 DEF StatusInv, StatusMove
<1>11. CASE SaveCommitted
  <2> DEFINE s == Moved(mem, "Committed", L)
  <2>1. pc = "CommitBytes" /\ Save(s, 0) /\ UNCHANGED <<part, complete>>
    BY <1>11 DEF SaveCommitted
  <2>2. "Committed" \in Status /\ L \in 0 .. L
    BY LengthOfEncoded DEF Status
  <2>3. s \in State /\ s.sequence = mem.sequence /\ s.status = "Committed"
    BY <1>0, <2>2, MovedType
  <2>4. mem.status \in {"Verified", "Committed"}
    BY <2>1 DEF StoreInv, HandleInv, StatusInv
  <2> HIDE DEF s
  <2> QED BY <2>1, <2>3, <2>4, SaveMoves DEF Transition
<1>12. CASE \E id \in Receipts : CommitReceipt(id)
  <2>1. PICK id \in Receipts : CommitReceipt(id)
    BY <1>12
  <2> DEFINE s == [mem EXCEPT !.receipt_ids = @ \union {id}]
  <2>2. pc = "idle" /\ Save(s, 0) /\ UNCHANGED <<part, complete>>
    BY <2>1 DEF CommitReceipt
  <2>3. s \in State /\ s.sequence = mem.sequence /\ s.status = mem.status
    BY <1>0 DEF State
  <2>4. mem = Latest
    BY <2>2, IdleFacts
  <2> HIDE DEF s
  <2> QED BY <2>2, <2>3, <2>4, SaveMoves DEF StatusInv
<1>13. CASE FailAtBoundary \/ Crash
  <2>1. UNCHANGED <<slots, part, complete>> /\ pc' \in {"closed", "idle"}
    BY <1>13 DEF FailAtBoundary, Crash, Raise, diskVars
  <2> QED BY <2>1, QuietStatus
<1>14. CASE UNCHANGED vars
  BY <1>14 DEF vars, StatusInv, StatusMove, Latest, Bytes
<1> QED
  BY <1>1, <1>2, <1>3, <1>4, <1>5, <1>8, <1>9, <1>10, <1>11, <1>12, <1>13,
     <1>14
  DEF Next

\* The durable status of the store never makes a move the receiver's state
\* machine forbids, other than the two StatusMoves names: whatever crashes,
\* torn appends, failed saves and reopenings come between.
THEOREM StatusFollowsMachine ==
  ASSUME RetryInPlace = FALSE
  PROVE  Spec => StatusMoves
<1>1. Init => StatusInv
  BY DEF Init, StatusInv, Latest, Fresh, Bytes
<1>2. StoreInv /\ StatusInv /\ [Next]_vars => StatusInv' /\ [StatusMove]_slots
  BY StepMoves
<1> QED
  BY <1>1, <1>2, StoreInvariant, PTL DEF Spec, StatusMoves
=============================================================================
