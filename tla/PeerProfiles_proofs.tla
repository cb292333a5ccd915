------------------------- MODULE PeerProfiles_proofs -------------------------
(***************************************************************************)
(* Proofs about negotiation, for all advertisements and all peers.         *)
(***************************************************************************)
EXTENDS PeerProfiles, FiniteSetTheorems, WellFoundedInduction, TLAPS

---------------------------------------------------------------------------
(* negotiate does not depend on which side calls it.                       *)

\* The maximum of a profile is the same from both sides.
LEMMA SmallerCommutes ==
    ASSUME NEW a \in Nat, NEW b \in Nat
    PROVE  Smaller(a, b) = Smaller(b, a)
BY DEF Smaller

\* A candidate seen from one side is a candidate seen from the other, with
\* the same preference sum.
LEMMA CandidateFromOtherSide ==
    ASSUME NEW l \in Capabilities, NEW r \in Capabilities,
           NEW c \in Candidates(l, r)
    PROVE  c \in Candidates(r, l)
<1> DEFINE mine   == l.codec_preferences
           theirs == r.codec_preferences
<1>1. mine \in Seq(CodecPreference) /\ theirs \in Seq(CodecPreference)
  BY DEF Capabilities
<1>2. PICK at \in Matches(l, r) :
          c = [rank |-> at[1] + at[2], tuple |-> mine[at[1]]]
  BY DEF Candidates
<1>3. /\ at[1] \in DOMAIN mine /\ at[2] \in DOMAIN theirs
      /\ mine[at[1]] = theirs[at[2]]
  BY <1>2 DEF Matches
<1>4. at[1] \in Nat /\ at[2] \in Nat
  BY <1>1, <1>3
<1> DEFINE back == <<at[2], at[1]>>
<1>5. back \in Matches(r, l)
  BY <1>3 DEF Matches
<1>6. c = [rank |-> back[1] + back[2], tuple |-> theirs[back[1]]]
  BY <1>2, <1>3, <1>4
<1> QED
  BY <1>5, <1>6 DEF Candidates

LEMMA CandidatesSymmetric ==
    ASSUME NEW l \in Capabilities, NEW r \in Capabilities
    PROVE  Candidates(l, r) = Candidates(r, l)
BY CandidateFromOtherSide

LEMMA CommonSymmetric ==
    ASSUME NEW l \in Capabilities, NEW r \in Capabilities,
           l.security_class = r.security_class
    PROVE  Common(l, r) = Common(r, l)
<1>1. CommonGenerations(l, r) = CommonGenerations(r, l)
  BY DEF CommonGenerations
<1>2. Candidates(l, r) = Candidates(r, l)
  BY CandidatesSymmetric
<1>3. /\ l.max_operation_octets \in Nat /\ r.max_operation_octets \in Nat
      /\ l.max_data_payload_octets \in Nat /\ r.max_data_payload_octets \in Nat
  BY DEF Capabilities
<1>4. /\ Smaller(l.max_operation_octets, r.max_operation_octets)
           = Smaller(r.max_operation_octets, l.max_operation_octets)
      /\ Smaller(l.max_data_payload_octets, r.max_data_payload_octets)
           = Smaller(r.max_data_payload_octets, l.max_data_payload_octets)
  BY <1>3, SmallerCommutes
<1>5. /\ l.receipt_levels \cap r.receipt_levels = r.receipt_levels \cap l.receipt_levels
      /\ ExtensionIds(l) \cap ExtensionIds(r) = ExtensionIds(r) \cap ExtensionIds(l)
  OBVIOUS
<1> QED
  BY <1>1, <1>2, <1>4, <1>5 DEF Common

\* negotiate(local, remote) = negotiate(remote, local), failures included.
THEOREM NegotiateSymmetric ==
    ASSUME NEW l \in Capabilities, NEW r \in Capabilities
    PROVE  Negotiate(l, r) = Negotiate(r, l)
<1>1. CommonGenerations(l, r) = CommonGenerations(r, l)
  BY DEF CommonGenerations
<1>2. Candidates(l, r) = Candidates(r, l)
  BY CandidatesSymmetric
<1>3. ToSet(l.schema_fingerprints) \cap ToSet(r.schema_fingerprints)
        = ToSet(r.schema_fingerprints) \cap ToSet(l.schema_fingerprints)
  OBVIOUS
<1>4. CASE l.security_class = r.security_class
  <2>1. Common(l, r) = Common(r, l)
    BY <1>4, CommonSymmetric
  <2> QED
    BY <1>1, <1>2, <1>3, <1>4, <2>1 DEF Negotiate
<1>5. CASE l.security_class # r.security_class
  BY <1>1, <1>5 DEF Negotiate
<1> QED
  BY <1>4, <1>5

---------------------------------------------------------------------------
(* The receiver's store of profiles.                                       *)

\* The part of the type invariant the theorems need.
OffersTyped ==
    /\ local \in Offers
    /\ remote \in [Peers -> Offers]
    /\ now \in Nat

THEOREM OffersAreTyped == Spec => []OffersTyped
<1>1. Init => OffersTyped
  BY DEF Init, OffersTyped
<1>2. OffersTyped /\ [Next]_vars => OffersTyped'
  <2> SUFFICES ASSUME OffersTyped, [Next]_vars
               PROVE  OffersTyped'
    OBVIOUS
  <2> USE DEF OffersTyped
  <2>1. ASSUME NEW p \in Peers, WarmContact(p)
        PROVE  OffersTyped'
    BY <2>1 DEF WarmContact
  <2>2. ASSUME NEW p \in Peers, ColdContact(p)
        PROVE  OffersTyped'
    BY <2>2 DEF ColdContact
  <2>3. ASSUME NEW p \in Peers, Reconfigure(p)
        PROVE  OffersTyped'
    BY <2>3, OffersAssumption DEF Reconfigure
  <2>4. CASE Tick
    BY <2>4 DEF Tick
  <2>5. CASE UNCHANGED vars
    BY <2>5 DEF vars
  <2> QED
    BY <2>1, <2>2, <2>3, <2>4, <2>5 DEF Next
<1> QED
  BY <1>1, <1>2, PTL DEF Spec

\* Whatever the peers advertise, both compute the same outcome.
THEOREM PeersAgree == Spec => []BothSidesAgree
<1>1. OffersTyped => BothSidesAgree
  <2> SUFFICES ASSUME OffersTyped, NEW p \in Peers
               PROVE  Outcome(p) = Negotiate(remote[p], local)
    BY DEF BothSidesAgree
  <2>1. local \in Capabilities /\ remote[p] \in Capabilities
    BY OffersAssumption DEF OffersTyped
  <2> QED
    BY <2>1, NegotiateSymmetric DEF Outcome
<1> QED
  BY <1>1, OffersAreTyped, PTL

\* What makes NeverAnotherPeersProfile inductive: a profile in the store that
\* has not expired is the last one negotiated with the peer it is bound to.
CacheIsLastNegotiated ==
    capabilityCache # None =>
        LET last == history[capabilityCache.peer_profile_id]
        IN  \/ ~(now <= capabilityCache.expires_at)
            \/ /\ last # << >>
               /\ last[1].result = Agreed(capabilityCache.profile)
               /\ capabilityCache.expires_at = last[1].at + Lifetime

IInv ==
    /\ now \in Nat
    /\ history = [p \in Peers |-> history[p]]
    /\ capabilityCache # None => /\ capabilityCache.peer_profile_id \in Peers
                                 /\ capabilityCache.expires_at \in Nat
    /\ contact # None => contact.peer \in Peers
    /\ CacheIsLastNegotiated
    /\ NeverAnotherPeersProfile

\* A contact goes on with its own peer's last negotiated profile.
THEOREM ProfilesStayBound == Spec => []NeverAnotherPeersProfile
<1>1. Init => IInv
  BY DEF Init, IInv, CacheIsLastNegotiated, NeverAnotherPeersProfile
<1>2. IInv /\ [Next]_vars => IInv'
  <2> SUFFICES ASSUME IInv, [Next]_vars
               PROVE  IInv'
    OBVIOUS
  <2> USE DEF IInv
  <2>1. ASSUME NEW p \in Peers, WarmContact(p)
        PROVE  IInv'
    <3>1. /\ contact' = [peer |-> p, result |-> Agreed(capabilityCache.profile), at |-> now]
          /\ capabilityCache # None /\ capabilityCache.peer_profile_id = p
          /\ now <= capabilityCache.expires_at
          /\ UNCHANGED <<local, remote, capabilityCache, now, history>>
      BY <2>1 DEF WarmContact, CachedNegotiation
    <3>2. CacheIsLastNegotiated'
      BY <3>1 DEF CacheIsLastNegotiated
    <3>3. NeverAnotherPeersProfile'
      BY <3>1 DEF CacheIsLastNegotiated, NeverAnotherPeersProfile
    <3> QED
      BY <3>1, <3>2, <3>3
  <2>2. ASSUME NEW p \in Peers, ColdContact(p)
        PROVE  IInv'
    <3> DEFINE result == Negotiate(local, remote[p])
    <3>1. /\ ~CachedNegotiation(p, now)
          /\ contact' = [peer |-> p, result |-> result, at |-> now]
          /\ history' = [history EXCEPT ![p] = <<[result |-> result, at |-> now]>>]
          /\ now' = now
          /\ \/ /\ "profile" \in DOMAIN result
                /\ capabilityCache' = [ peer_profile_id |-> p,
                                        expires_at      |-> now + Lifetime,
                                        profile         |-> result.profile ]
             \/ capabilityCache' = capabilityCache
      BY <2>2 DEF ColdContact
    <3> HIDE DEF result
    <3>2. /\ history' = [x \in Peers |-> history'[x]]
          /\ history'[p] = <<[result |-> result, at |-> now]>>
          /\ \A x \in Peers : x # p => history'[x] = history[x]
      BY <3>1
    <3>3. now <= now + Lifetime /\ now + Lifetime \in Nat
      BY LifetimeAssumption
    <3>4. NeverAnotherPeersProfile'
      BY <3>1, <3>2, <3>3 DEF NeverAnotherPeersProfile
    <3>5. CASE UNCHANGED capabilityCache
      <4>1. CacheIsLastNegotiated'
        BY <3>1, <3>2, <3>5 DEF CacheIsLastNegotiated, CachedNegotiation
      <4> QED
        BY <3>1, <3>2, <3>4, <3>5, <4>1
    <3>6. CASE /\ "profile" \in DOMAIN result
               /\ capabilityCache' = [ peer_profile_id |-> p,
                                       expires_at      |-> now + Lifetime,
                                       profile         |-> result.profile ]
      <4>1. result = Agreed(result.profile)
        BY <3>6 DEF result, Negotiate, Agreed, Refused
      <4>2. CacheIsLastNegotiated'
        BY <3>1, <3>2, <3>6, <4>1 DEF CacheIsLastNegotiated
      <4> QED
        BY <3>1, <3>2, <3>3, <3>4, <3>6, <4>2
    <3> QED
      BY <3>1, <3>5, <3>6
  <2>3. ASSUME NEW p \in Peers, Reconfigure(p)
        PROVE  IInv'
    BY <2>3 DEF Reconfigure, CacheIsLastNegotiated, NeverAnotherPeersProfile
  <2>4. CASE Tick
    <3>1. now' = now + 1 /\ UNCHANGED <<local, remote, capabilityCache, contact, history>>
      BY <2>4 DEF Tick
    <3>2. CacheIsLastNegotiated'
      <4> SUFFICES ASSUME capabilityCache # None, now + 1 <= capabilityCache.expires_at
                   PROVE  now <= capabilityCache.expires_at
        BY <3>1 DEF CacheIsLastNegotiated
      <4> QED
        OBVIOUS
    <3> QED
      BY <3>1, <3>2 DEF NeverAnotherPeersProfile
  <2>5. CASE UNCHANGED vars
    BY <2>5 DEF vars, CacheIsLastNegotiated, NeverAnotherPeersProfile
  <2> QED
    BY <2>1, <2>2, <2>3, <2>4, <2>5 DEF Next
<1>3. IInv => NeverAnotherPeersProfile
  BY DEF IInv
<1> QED
  BY <1>1, <1>2, <1>3, PTL DEF Spec

---------------------------------------------------------------------------
(* What is selected.                                                       *)

LEMMA LeastExists ==
    ASSUME NEW S \in SUBSET Nat, S # {}
    PROVE  \E m \in S : \A n \in S : m <= n
<1>1. PICK m \in S : \A n \in S : ~(<<n, m>> \in OpToRel(<, Nat))
  BY NatLessThanWellFounded, WFMin
<1>2. \A n \in S : ~(n < m)
  BY <1>1 DEF OpToRel
<1> QED
  BY <1>2

LEMMA MembersFinite ==
    ASSUME NEW S, NEW list \in Seq(S)
    PROVE  IsFiniteSet(ToSet(list))
<1>1. list \in Surjection(1 .. Len(list), ToSet(list))
  BY DEF ToSet, Surjection
<1>2. IsFiniteSet(1 .. Len(list))
  BY FS_Interval
<1> QED
  BY <1>1, <1>2, FS_Surjection

\* The generation with the fewest others above it has none.
LEMMA HighestExists ==
    ASSUME NEW G \in SUBSET ProtocolGeneration, IsFiniteSet(G), G # {}
    PROVE  \E g \in G : \A h \in G : AtLeast(g, h)
<1> DEFINE above(g) == {h \in G : ~AtLeast(g, h)}
           counts == {Cardinality(above(g)) : g \in G}
<1>1. \A g \in G : IsFiniteSet(above(g)) /\ Cardinality(above(g)) \in Nat
  <2> TAKE g \in G
  <2>1. IsFiniteSet(above(g))
    BY FS_Subset
  <2> QED
    BY <2>1, FS_CardinalityType
<1>2. PICK k \in counts : \A n \in counts : k <= n
  <2>1. counts \in SUBSET Nat /\ counts # {}
    BY <1>1
  <2> HIDE DEF counts
  <2> QED
    BY <2>1, LeastExists
<1>3. PICK g \in G : k = Cardinality(above(g))
  BY <1>2
<1>4. ASSUME NEW h \in G, ~AtLeast(g, h)
      PROVE  FALSE
  <2>1. above(h) \in SUBSET above(g) /\ h \in above(g) /\ h \notin above(h)
    <3>1. \A x \in G : ~AtLeast(h, x) => ~AtLeast(g, x)
      BY <1>4 DEF AtLeast, ProtocolGeneration
    <3>2. AtLeast(h, h)
      BY DEF AtLeast, ProtocolGeneration
    <3> QED
      BY <1>4, <3>1, <3>2
  <2>2. /\ Cardinality(above(h)) <= Cardinality(above(g))
        /\ Cardinality(above(g)) = Cardinality(above(h)) => above(g) = above(h)
    <3> HIDE DEF above
    <3> QED
      BY <1>1, <2>1, FS_Subset
  <2>3. k <= Cardinality(above(h))
    BY <1>2
  <2> HIDE DEF above, counts
  <2>4. above(g) = above(h)
    BY <1>1, <1>3, <2>2, <2>3
  <2> QED
    BY <2>1, <2>4
<1> QED
  BY <1>4

\* The generation of a profile is one both peers list.
LEMMA HighestIsCommon ==
    ASSUME NEW l \in Capabilities, NEW r \in Capabilities,
           CommonGenerations(l, r) # {}
    PROVE  /\ Highest(CommonGenerations(l, r)) \in CommonGenerations(l, r)
           /\ CommonGenerations(l, r) \subseteq ProtocolGeneration
<1> DEFINE G == CommonGenerations(l, r)
<1>1. l.protocol_generations \in Seq(ProtocolGeneration)
  BY DEF Capabilities
<1>2. /\ G \in SUBSET ToSet(l.protocol_generations)
      /\ ToSet(l.protocol_generations) \subseteq ProtocolGeneration
  BY <1>1 DEF CommonGenerations, ToSet
<1>3. IsFiniteSet(G)
  BY <1>1, <1>2, MembersFinite, FS_Subset
<1> HIDE DEF G
<1>4. \E g \in G : \A h \in G : AtLeast(g, h)
  BY <1>2, <1>3, HighestExists DEF G
<1> QED
  BY <1>2, <1>4 DEF Highest, G

\* Where a candidate comes from.
LEMMA CandidateTyped ==
    ASSUME NEW l \in Capabilities, NEW r \in Capabilities, NEW c \in Candidates(l, r)
    PROVE  \E i \in DOMAIN l.codec_preferences, j \in DOMAIN r.codec_preferences :
              /\ l.codec_preferences[i] = c.tuple
              /\ r.codec_preferences[j] = c.tuple
              /\ i \in Nat /\ j \in Nat
              /\ c.rank = i + j
              /\ c.tuple \in CodecPreference
<1> DEFINE mine   == l.codec_preferences
           theirs == r.codec_preferences
<1>1. mine \in Seq(CodecPreference) /\ theirs \in Seq(CodecPreference)
  BY DEF Capabilities
<1>2. PICK at \in Matches(l, r) :
          c = [rank |-> at[1] + at[2], tuple |-> mine[at[1]]]
  BY DEF Candidates
<1>3. /\ at[1] \in DOMAIN mine /\ at[2] \in DOMAIN theirs
      /\ mine[at[1]] = theirs[at[2]]
  BY <1>2 DEF Matches
<1>4. at[1] \in Nat /\ at[2] \in Nat /\ mine[at[1]] \in CodecPreference
  BY <1>1, <1>3
<1>5. c.rank = at[1] + at[2] /\ c.tuple = mine[at[1]]
  BY <1>2
<1> QED
  BY <1>3, <1>4, <1>5

\* The order of the candidates, key by key.
LEMMA ComparedInTurn ==
    ASSUME NEW x, NEW y,
           \/ x.rank < y.rank
           \/ /\ x.rank = y.rank
              /\ \/ x.tuple.codec_id < y.tuple.codec_id
                 \/ /\ x.tuple.codec_id = y.tuple.codec_id
                    /\ \/ x.tuple.revision < y.tuple.revision
                       \/ /\ x.tuple.revision = y.tuple.revision
                          /\ \/ x.tuple.schema_fingerprint < y.tuple.schema_fingerprint
                             \/ x.tuple.schema_fingerprint = y.tuple.schema_fingerprint
    PROVE  NotAfter(x, y)
<1> DEFINE a == <<x.rank, x.tuple.codec_id, x.tuple.revision, x.tuple.schema_fingerprint>>
           b == <<y.rank, y.tuple.codec_id, y.tuple.revision, y.tuple.schema_fingerprint>>
           Decides(k) == a[k] < b[k] /\ \A m \in 1 .. (k - 1) : a[m] = b[m]
<1>1. CASE x.rank < y.rank
  <2>1. Decides(1)
    BY <1>1
  <2> QED
    BY <2>1 DEF NotAfter
<1>2. CASE x.rank = y.rank /\ x.tuple.codec_id < y.tuple.codec_id
  <2>1. Decides(2)
    BY <1>2
  <2> QED
    BY <2>1 DEF NotAfter
<1>3. CASE /\ x.rank = y.rank /\ x.tuple.codec_id = y.tuple.codec_id
           /\ x.tuple.revision < y.tuple.revision
  <2>1. Decides(3)
    <3>1. \A m \in 1 .. 2 : m = 1 \/ m = 2
      OBVIOUS
    <3> QED
      BY <1>3, <3>1
  <2> QED
    BY <2>1 DEF NotAfter
<1>4. CASE /\ x.rank = y.rank /\ x.tuple.codec_id = y.tuple.codec_id
           /\ x.tuple.revision = y.tuple.revision
           /\ x.tuple.schema_fingerprint < y.tuple.schema_fingerprint
  <2>1. Decides(4)
    <3>1. \A m \in 1 .. 3 : m = 1 \/ m = 2 \/ m = 3
      OBVIOUS
    <3> QED
      BY <1>4, <3>1
  <2> QED
    BY <2>1 DEF NotAfter
<1>5. CASE a = b
  BY <1>5 DEF NotAfter
<1> QED
  BY <1>1, <1>2, <1>3, <1>4, <1>5

\* One candidate comes before all others.
LEMMA ForemostExists ==
    ASSUME NEW C, C # {},
           \A c \in C : c.rank \in Nat /\ c.tuple \in CodecPreference
    PROVE  \E x \in C : \A y \in C : NotAfter(x, y)
<1> DEFINE ranks == {c.rank : c \in C}
<1>1. PICK rank \in ranks : \A n \in ranks : rank <= n
  <2>1. ranks \in SUBSET Nat /\ ranks # {}
    OBVIOUS
  <2> HIDE DEF ranks
  <2> QED
    BY <2>1, LeastExists
<1> DEFINE D == {c \in C : c.rank = rank}
           ids == {c.tuple.codec_id : c \in D}
<1>2. PICK id \in ids : \A n \in ids : id <= n
  <2>1. D # {}
    BY <1>1
  <2>2. ids \in SUBSET Nat /\ ids # {}
    BY <2>1 DEF CodecPreference
  <2> HIDE DEF ids
  <2> QED
    BY <2>2, LeastExists
<1> DEFINE E == {c \in D : c.tuple.codec_id = id}
           revisions == {c.tuple.revision : c \in E}
<1>3. PICK revision \in revisions : \A n \in revisions : revision <= n
  <2>1. E # {}
    BY <1>2
  <2>2. revisions \in SUBSET Nat /\ revisions # {}
    BY <2>1 DEF CodecPreference
  <2> HIDE DEF revisions
  <2> QED
    BY <2>2, LeastExists
<1> DEFINE F == {c \in E : c.tuple.revision = revision}
           prints == {c.tuple.schema_fingerprint : c \in F}
<1>4. PICK print \in prints : \A n \in prints : print <= n
  <2>1. F # {}
    BY <1>3
  <2>2. prints \in SUBSET Nat /\ prints # {}
    BY <2>1 DEF CodecPreference
  <2> HIDE DEF prints
  <2> QED
    BY <2>2, LeastExists
<1>5. PICK x \in F : x.tuple.schema_fingerprint = print
  BY <1>4
<1>6. ASSUME NEW y \in C
      PROVE  NotAfter(x, y)
  <2>1. /\ x \in C /\ x.rank = rank /\ x.tuple.codec_id = id
        /\ x.tuple.revision = revision /\ x.tuple.schema_fingerprint = print
    BY <1>5
  <2>2. /\ x.rank \in Nat /\ y.rank \in Nat
        /\ x.tuple \in CodecPreference /\ y.tuple \in CodecPreference
    BY <2>1
  <2>3. /\ rank <= y.rank
        /\ y.rank = rank => id <= y.tuple.codec_id
        /\ y.rank = rank /\ y.tuple.codec_id = id => revision <= y.tuple.revision
        /\ y.rank = rank /\ y.tuple.codec_id = id /\ y.tuple.revision = revision =>
              print <= y.tuple.schema_fingerprint
    BY <1>1, <1>2, <1>3, <1>4
  <2> HIDE DEF ranks, ids, revisions, prints, D, E, F
  <2> QED
    BY <2>1, <2>2, <2>3, ComparedInTurn DEF CodecPreference
<1> QED
  BY <1>5, <1>6

LEMMA ForemostIsCandidate ==
    ASSUME NEW l \in Capabilities, NEW r \in Capabilities, Candidates(l, r) # {}
    PROVE  \E x \in Candidates(l, r) :
              /\ Foremost(Candidates(l, r)) = x.tuple
              /\ \A y \in Candidates(l, r) : x.rank <= y.rank
<1> DEFINE C == Candidates(l, r)
           x == CHOOSE z \in C : \A y \in C : NotAfter(z, y)
<1>1. \A c \in C : c.rank \in Nat /\ c.tuple \in CodecPreference
  BY CandidateTyped
<1> HIDE DEF C
<1>2. x \in C /\ \A y \in C : NotAfter(x, y)
  BY <1>1, ForemostExists DEF C
<1>3. ASSUME NEW y \in C
      PROVE  x.rank <= y.rank
  <2> HIDE DEF x
  <2>1. NotAfter(x, y) /\ x.rank \in Nat /\ y.rank \in Nat
    BY <1>1, <1>2
  <2> DEFINE a == <<x.rank, x.tuple.codec_id, x.tuple.revision, x.tuple.schema_fingerprint>>
             b == <<y.rank, y.tuple.codec_id, y.tuple.revision, y.tuple.schema_fingerprint>>
  <2>2. a[1] = x.rank /\ b[1] = y.rank
    OBVIOUS
  <2>3. a = b \/ \E k \in 1 .. 4 : a[k] < b[k] /\ \A m \in 1 .. (k - 1) : a[m] = b[m]
    BY <2>1 DEF NotAfter
  <2> HIDE DEF a, b
  <2>4. CASE a = b
    BY <2>1, <2>2, <2>4
  <2>5. CASE \E k \in 1 .. 4 : a[k] < b[k] /\ \A m \in 1 .. (k - 1) : a[m] = b[m]
    <3>1. PICK k \in 1 .. 4 : a[k] < b[k] /\ \A m \in 1 .. (k - 1) : a[m] = b[m]
      BY <2>5
    <3>2. CASE k = 1
      BY <2>1, <2>2, <3>1, <3>2
    <3>3. CASE k # 1
      <4>1. 1 \in 1 .. (k - 1)
        BY <3>3
      <4> QED
        BY <2>1, <2>2, <3>1, <4>1
    <3> QED
      BY <3>2, <3>3
  <2> QED
    BY <2>3, <2>4, <2>5
<1>4. Foremost(C) = x.tuple
  BY DEF Foremost
<1> HIDE DEF x
<1> QED
  BY <1>2, <1>3, <1>4 DEF C

\* What negotiate has checked when it agrees.
LEMMA AgreedChecks ==
    ASSUME NEW l, NEW r, IsAgreed(Negotiate(l, r))
    PROVE  /\ Negotiate(l, r).profile = Common(l, r)
           /\ ValidCapabilities(l) /\ ValidCapabilities(r)
           /\ CommonGenerations(l, r) # {}
           /\ Candidates(l, r) # {}
           /\ l.security_class = r.security_class
           /\ CriticalIds(l) \subseteq ExtensionIds(r)
           /\ CriticalIds(r) \subseteq ExtensionIds(l)
<1>1. \A code : ~IsAgreed(Refused(code))
  BY DEF IsAgreed, Refused
<1>2. Agreed(Common(l, r)).profile = Common(l, r)
  BY DEF Agreed
<1> HIDE DEF IsAgreed
<1> QED
  BY <1>1, <1>2 DEF Negotiate

\* A member of a list, its place, and the place of a match.
LEMMA PlaceOf ==
    ASSUME NEW S, NEW list \in Seq(S), IsInjective(list), NEW i \in DOMAIN list
    PROVE  Place(list, list[i]) = i
BY DEF Place, IsInjective

LEMMA PlaceOfMember ==
    ASSUME NEW S, NEW list \in Seq(S), NEW t \in ToSet(list)
    PROVE  Place(list, t) \in DOMAIN list /\ list[Place(list, t)] = t
BY DEF Place, ToSet

\* Both peers list every part of the profile they agree on.
LEMMA ProfileIsCommon ==
    ASSUME NEW l \in Capabilities, NEW r \in Capabilities, IsAgreed(Negotiate(l, r))
    PROVE  LET profile == Negotiate(l, r).profile IN
           /\ profile.protocol \in ToSet(l.protocol_generations)
           /\ profile.protocol \in ToSet(r.protocol_generations)
           /\ profile.protocol \in ProtocolGeneration
           /\ profile.codec \in ToSet(l.codec_preferences)
           /\ profile.codec \in ToSet(r.codec_preferences)
           /\ profile.codec \in CodecPreference
           /\ profile.max_operation_octets \in 1 .. l.max_operation_octets
           /\ profile.max_operation_octets \in 1 .. r.max_operation_octets
           /\ profile.max_data_payload_octets \in 1 .. l.max_data_payload_octets
           /\ profile.max_data_payload_octets \in 1 .. r.max_data_payload_octets
           /\ profile.receipt_levels = l.receipt_levels \cap r.receipt_levels
           /\ profile.security_class = l.security_class
           /\ profile.extensions = ExtensionIds(l) \cap ExtensionIds(r)
<1> DEFINE profile == Negotiate(l, r).profile
<1>1. /\ profile = Common(l, r)
      /\ ValidMaxima(l) /\ ValidMaxima(r)
      /\ CommonGenerations(l, r) # {} /\ Candidates(l, r) # {}
  BY AgreedChecks DEF ValidCapabilities
<1> HIDE DEF profile
<1>2. profile.protocol = Highest(CommonGenerations(l, r))
  BY <1>1 DEF Common
<1>3. /\ profile.protocol \in ToSet(l.protocol_generations)
      /\ profile.protocol \in ToSet(r.protocol_generations)
      /\ profile.protocol \in ProtocolGeneration
  <2>1. profile.protocol \in CommonGenerations(l, r) /\ profile.protocol \in ProtocolGeneration
    BY <1>1, <1>2, HighestIsCommon
  <2> QED
    BY <2>1 DEF CommonGenerations
<1>4. PICK x \in Candidates(l, r) : profile.codec = x.tuple
  <2>1. profile.codec = Foremost(Candidates(l, r))
    BY <1>1 DEF Common
  <2> QED
    BY <1>1, <2>1, ForemostIsCandidate
<1>5. /\ profile.codec \in ToSet(l.codec_preferences)
      /\ profile.codec \in ToSet(r.codec_preferences)
      /\ profile.codec \in CodecPreference
  BY <1>4, CandidateTyped DEF ToSet
<1>6. /\ profile.max_operation_octets
           = Smaller(l.max_operation_octets, r.max_operation_octets)
      /\ profile.max_data_payload_octets
           = Smaller(l.max_data_payload_octets, r.max_data_payload_octets)
      /\ profile.receipt_levels = l.receipt_levels \cap r.receipt_levels
      /\ profile.security_class = l.security_class
      /\ profile.extensions = ExtensionIds(l) \cap ExtensionIds(r)
  BY <1>1 DEF Common
<1>7. /\ profile.max_operation_octets \in 1 .. l.max_operation_octets
      /\ profile.max_operation_octets \in 1 .. r.max_operation_octets
      /\ profile.max_data_payload_octets \in 1 .. l.max_data_payload_octets
      /\ profile.max_data_payload_octets \in 1 .. r.max_data_payload_octets
  <2>1. /\ l.max_operation_octets \in Nat \ {0} /\ r.max_operation_octets \in Nat \ {0}
        /\ l.max_data_payload_octets \in Nat \ {0} /\ r.max_data_payload_octets \in Nat \ {0}
    BY <1>1 DEF ValidMaxima
  <2> QED
    BY <1>6, <2>1 DEF Smaller
<1> QED
  BY <1>3, <1>5, <1>6, <1>7 DEF profile

\* What both agree on serves both.
THEOREM AgreedProfileServes == Spec => []ProfileServesBoth
<1>1. OffersTyped => ProfileServesBoth
  <2> SUFFICES ASSUME OffersTyped, NEW p \in Peers, IsAgreed(Outcome(p)),
                      NEW c \in {local, remote[p]}
               PROVE  LET profile == Outcome(p).profile IN
                      /\ profile.protocol \in ToSet(c.protocol_generations)
                      /\ profile.codec \in ToSet(c.codec_preferences)
                      /\ profile.codec.schema_fingerprint \in ToSet(c.schema_fingerprints)
                      /\ profile.max_operation_octets \in 1 .. c.max_operation_octets
                      /\ profile.max_data_payload_octets \in 1 .. c.max_data_payload_octets
                      /\ profile.receipt_levels \subseteq c.receipt_levels
                      /\ CriticalIds(c) \subseteq profile.extensions
    BY DEF ProfileServesBoth
  <2>1. local \in Capabilities /\ remote[p] \in Capabilities
    BY OffersAssumption DEF OffersTyped
  <2>2. /\ ValidCapabilities(c)
        /\ CriticalIds(local) \subseteq ExtensionIds(remote[p])
        /\ CriticalIds(remote[p]) \subseteq ExtensionIds(local)
    BY AgreedChecks DEF Outcome
  <2>3. CriticalIds(c) \subseteq ExtensionIds(local) \cap ExtensionIds(remote[p])
    <3>1. CriticalIds(c) \subseteq ExtensionIds(c)
      BY DEF CriticalIds, ExtensionIds
    <3> QED
      BY <2>2, <3>1
  <2>4. \A t \in ToSet(c.codec_preferences) :
            t.schema_fingerprint \in ToSet(c.schema_fingerprints)
    BY <2>2 DEF ValidCapabilities
  <2>5. IsAgreed(Negotiate(local, remote[p]))
    BY DEF Outcome
  <2> QED
    BY <2>1, <2>3, <2>4, <2>5, ProfileIsCommon DEF Outcome
<1> QED
  BY <1>1, OffersAreTyped, PTL

\* No tuple both peers list stands before the selected one in both lists.
THEOREM SelectedIsUnbeaten == Spec => []NoTupleBothPrefer
<1>1. OffersTyped => NoTupleBothPrefer
  <2> SUFFICES ASSUME OffersTyped, NEW p \in Peers, IsAgreed(Outcome(p))
               PROVE  LET mine   == local.codec_preferences
                          theirs == remote[p].codec_preferences
                          chosen == Outcome(p).profile.codec
                      IN  \A t \in ToSet(mine) \cap ToSet(theirs) :
                             \/ Place(mine, chosen) <= Place(mine, t)
                             \/ Place(theirs, chosen) <= Place(theirs, t)
    BY DEF NoTupleBothPrefer
  <2> DEFINE mine   == local.codec_preferences
             theirs == remote[p].codec_preferences
             chosen == Outcome(p).profile.codec
  <2>1. /\ local \in Capabilities /\ remote[p] \in Capabilities
        /\ mine \in Seq(CodecPreference) /\ theirs \in Seq(CodecPreference)
    BY OffersAssumption DEF OffersTyped, Capabilities
  <2>2. /\ chosen = Foremost(Candidates(local, remote[p]))
        /\ Candidates(local, remote[p]) # {}
        /\ IsInjective(mine) /\ IsInjective(theirs)
    <3>1. /\ Outcome(p).profile = Common(local, remote[p])
          /\ ValidCapabilities(local) /\ ValidCapabilities(remote[p])
          /\ Candidates(local, remote[p]) # {}
      BY AgreedChecks DEF Outcome
    <3>2. chosen = Foremost(Candidates(local, remote[p]))
      BY <3>1 DEF Common
    <3>3. IsInjective(mine) /\ IsInjective(theirs)
      BY <3>1 DEF ValidCapabilities, NonemptyUnique
    <3> QED
      BY <3>1, <3>2, <3>3
  <2>3. PICK x \in Candidates(local, remote[p]) :
            chosen = x.tuple /\ \A y \in Candidates(local, remote[p]) : x.rank <= y.rank
    BY <2>1, <2>2, ForemostIsCandidate
  <2>4. PICK i \in DOMAIN mine, j \in DOMAIN theirs :
            mine[i] = chosen /\ theirs[j] = chosen /\ x.rank = i + j /\ i \in Nat /\ j \in Nat
    BY <2>1, <2>3, CandidateTyped
  <2>5. Place(mine, chosen) = i /\ Place(theirs, chosen) = j
    BY <2>1, <2>2, <2>4, PlaceOf
  <2>6. ASSUME NEW t \in ToSet(mine) \cap ToSet(theirs)
        PROVE  i <= Place(mine, t) \/ j <= Place(theirs, t)
    <3> DEFINE at == <<Place(mine, t), Place(theirs, t)>>
    <3>1. /\ at[1] \in DOMAIN mine /\ at[2] \in DOMAIN theirs
          /\ mine[at[1]] = t /\ theirs[at[2]] = t
      BY <2>1, PlaceOfMember
    <3>2. at[1] \in Nat /\ at[2] \in Nat
      BY <2>1, <3>1
    <3>3. at \in Matches(local, remote[p])
      BY <3>1 DEF Matches
    <3>4. [rank |-> at[1] + at[2], tuple |-> mine[at[1]]] \in Candidates(local, remote[p])
      BY <3>3 DEF Candidates
    <3>5. i + j <= at[1] + at[2]
      BY <2>3, <2>4, <3>4
    <3>6. at[1] = Place(mine, t) /\ at[2] = Place(theirs, t)
      OBVIOUS
    <3> HIDE DEF at
    <3> QED
      BY <2>4, <3>2, <3>5, <3>6
  <2> QED
    BY <2>5, <2>6
<1> QED
  BY <1>1, OffersAreTyped, PTL

\* Whatever is stored is a profile that carries no zero maximum, bound to a
\* peer and to the time it ends.
THEOREM ProfilesTyped == Spec => []TypeOK
<1>1. Init => TypeOK
  BY LifetimeAssumption DEF Init, TypeOK
<1>2. OffersTyped /\ TypeOK /\ [Next]_vars => TypeOK'
  <2> SUFFICES ASSUME OffersTyped, TypeOK, [Next]_vars
               PROVE  TypeOK'
    OBVIOUS
  <2>1. ASSUME NEW p \in Peers, WarmContact(p)
        PROVE  TypeOK'
    BY <2>1 DEF WarmContact, TypeOK
  <2>2. ASSUME NEW p \in Peers, ColdContact(p)
        PROVE  TypeOK'
    <3>1. UNCHANGED <<local, remote, now>>
      BY <2>2 DEF ColdContact
    <3>2. CASE UNCHANGED capabilityCache
      BY <3>1, <3>2 DEF TypeOK
    <3>3. CASE capabilityCache' # capabilityCache
      <4> DEFINE result == Negotiate(local, remote[p])
      <4>1. /\ IsAgreed(result)
            /\ capabilityCache' = [ peer_profile_id |-> p,
                                    expires_at      |-> now + Lifetime,
                                    profile         |-> result.profile ]
        BY <2>2, <3>3 DEF ColdContact, IsAgreed
      <4>2. local \in Capabilities /\ remote[p] \in Capabilities
        BY OffersAssumption DEF OffersTyped
      <4>3. result.profile \in Profile
        <5>1. result.profile = Common(local, remote[p]) /\ ValidMaxima(local)
          BY <4>1, AgreedChecks DEF ValidCapabilities
        <5>2. /\ local.receipt_levels \in SUBSET (0 .. 7)
              /\ local.security_class \in ToSet(SecurityClasses)
              /\ local.extensions \in Seq(ExtensionDeclaration)
          BY <4>2 DEF Capabilities
        <5>3. ExtensionIds(local) \subseteq Nat
          <6>1. \A i \in DOMAIN local.extensions :
                    local.extensions[i] \in ExtensionDeclaration
            BY <5>2
          <6>2. \A i \in DOMAIN local.extensions : local.extensions[i].id \in Nat
            BY <6>1 DEF ExtensionDeclaration
          <6> QED
            BY <6>2 DEF ExtensionIds, ToSet
        <5>4. /\ result.profile.protocol \in ProtocolGeneration
              /\ result.profile.codec \in CodecPreference
              /\ result.profile.max_operation_octets \in 1 .. local.max_operation_octets
              /\ result.profile.max_data_payload_octets \in 1 .. local.max_data_payload_octets
              /\ result.profile.receipt_levels \subseteq local.receipt_levels
              /\ result.profile.security_class = local.security_class
              /\ result.profile.extensions \subseteq ExtensionIds(local)
          BY <4>1, <4>2, ProfileIsCommon
        <5>5. /\ local.max_operation_octets \in 1 .. MaxOperationOctets
              /\ local.max_data_payload_octets \in 1 .. MaxRepresentationOctets
          BY <5>1 DEF ValidMaxima
        <5>6. /\ result.profile.max_operation_octets \in 1 .. MaxOperationOctets
              /\ result.profile.max_data_payload_octets \in 1 .. MaxRepresentationOctets
          BY <5>4, <5>5, LimitsAssumption
        <5> DEFINE q == result.profile
        <5>7. q = [ protocol                |-> q.protocol,
                    codec                   |-> q.codec,
                    max_operation_octets    |-> q.max_operation_octets,
                    max_data_payload_octets |-> q.max_data_payload_octets,
                    receipt_levels          |-> q.receipt_levels,
                    security_class          |-> q.security_class,
                    extensions              |-> q.extensions ]
          BY <5>1 DEF Common
        <5> HIDE DEF q
        <5>8. q \in Profile
          BY <5>2, <5>3, <5>4, <5>6, <5>7 DEF Profile, q
        <5> QED
          BY <5>8 DEF q
      <4>4. now + Lifetime \in 0 .. (MaxTime + Lifetime)
        BY LifetimeAssumption DEF TypeOK
      <4> HIDE DEF result
      <4> QED
        BY <3>1, <4>1, <4>3, <4>4 DEF TypeOK
    <3> QED
      BY <3>2, <3>3
  <2>3. ASSUME NEW p \in Peers, Reconfigure(p)
        PROVE  TypeOK'
    BY <2>3, OffersAssumption DEF Reconfigure, TypeOK
  <2>4. CASE Tick
    BY <2>4, LifetimeAssumption DEF Tick, TypeOK
  <2>5. CASE UNCHANGED vars
    BY <2>5 DEF vars, TypeOK
  <2> QED
    BY <2>1, <2>2, <2>3, <2>4, <2>5 DEF Next
<1> QED
  BY <1>1, <1>2, OffersAreTyped, PTL DEF Spec

=============================================================================
