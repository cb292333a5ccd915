---------------------------- MODULE PeerProfiles ----------------------------
(***************************************************************************)
(* A receiver that opens contacts with several peers: it negotiates with   *)
(* the peer at hand unless its protocol store still holds the profile it   *)
(* negotiated with that peer.  The store keeps one profile, whoever the    *)
(* peer, and its expiry (crates/bempic-store/src/v01.rs); run_contact      *)
(* (crates/bempic-sim/src/v01.rs) looks it up, negotiates and persists.    *)
(***************************************************************************)
EXTENDS Negotiation

CONSTANTS
    Peers,          \* peer/profile identities
    Offers,         \* the advertisements this receiver may hold
    PeerOffers,     \* [Peers -> the advertisements the peer may start with]
    LaterOffers,    \* the advertisements a peer may change to
    Lifetime,       \* how long a profile is kept: 86_400 in run_contact
    MaxTime,        \* bound: the last time a contact opens
    None

ASSUME OffersAssumption ==
    /\ Offers \subseteq Capabilities
    /\ LaterOffers \subseteq Offers
    /\ PeerOffers \in [Peers -> SUBSET Offers]
ASSUME LifetimeAssumption == Lifetime \in Nat /\ MaxTime \in Nat

VARIABLES
    local,          \* what this receiver advertises
    remote,         \* [Peers -> Offers] what each peer advertises
    capabilityCache,\* State::capability_cache, None or a profile with its binding
    now,            \* the caller's clock
    contact,        \* the last contact: its peer and the outcome it went on with
    history         \* history: [Peers -> the last result negotiated and when, if any]

vars == <<local, remote, capabilityCache, now, contact, history>>

CachedAnyPeer(peer, time) ==
    /\ capabilityCache # None
    /\ time <= capabilityCache.expires_at

\* cached_negotiation: only for the exact peer, and only until it expires.
CachedNegotiation(peer, time) ==
    /\ capabilityCache # None
    /\ capabilityCache.peer_profile_id = peer
    /\ time <= capabilityCache.expires_at

Init ==
    /\ local \in Offers
    /\ remote \in [Peers -> Offers]
    /\ \A p \in Peers : remote[p] \in PeerOffers[p]
    /\ capabilityCache = None
    /\ now = 0
    /\ contact = None
    /\ history = [p \in Peers |-> << >>]

\* A contact that finds its profile in the store exchanges no capabilities.
WarmContact(peer) ==
    /\ CachedNegotiation(peer, now)
    /\ contact' = [peer |-> peer, result |-> Agreed(capabilityCache.profile), at |-> now]
    /\ UNCHANGED <<local, remote, capabilityCache, now, history>>

\* The others exchange them, negotiate, and persist what was agreed.
ColdContact(peer) ==
    LET result == Negotiate(local, remote[peer])
    IN  /\ ~CachedNegotiation(peer, now)
        /\ contact' = [peer |-> peer, result |-> result, at |-> now]
        /\ history' = [history EXCEPT ![peer] = <<[result |-> result, at |-> now]>>]
        /\ \/ /\ "profile" \in DOMAIN result
              /\ capabilityCache' = [ peer_profile_id |-> peer,
                                      expires_at      |-> now + Lifetime,
                                      profile         |-> result.profile ]
           \/ /\ "failure" \in DOMAIN result
              /\ UNCHANGED capabilityCache
        /\ UNCHANGED <<local, remote, now>>

\* A peer advertises something else from its next contact on.
Reconfigure(peer) ==
    /\ \E c \in LaterOffers \ {remote[peer]} : remote' = [remote EXCEPT ![peer] = c]
    /\ UNCHANGED <<local, capabilityCache, now, contact, history>>

Tick ==
    /\ now < MaxTime
    /\ now' = now + 1
    /\ UNCHANGED <<local, remote, capabilityCache, contact, history>>

Next ==
    \/ \E p \in Peers : WarmContact(p) \/ ColdContact(p) \/ Reconfigure(p)
    \/ Tick

Spec == Init /\ [][Next]_vars

---------------------------------------------------------------------------
(* Properties.                                                             *)

\* The result of the negotiation with a peer, were it to open a contact now.
Outcome(peer) == Negotiate(local, remote[peer])

IsAgreed(result) == "profile" \in DOMAIN result

Profile ==
    [ protocol                : ProtocolGeneration,
      codec                   : CodecPreference,
      max_operation_octets    : 1 .. MaxOperationOctets,
      max_data_payload_octets : 1 .. MaxRepresentationOctets,
      receipt_levels          : SUBSET (0 .. 7),
      security_class          : ToSet(SecurityClasses),
      extensions              : SUBSET Nat ]

\* Type invariant: in particular a profile never carries a zero maximum,
\* under which no later record of the contact could be admitted.
TypeOK ==
    /\ local \in Offers
    /\ remote \in [Peers -> Offers]
    /\ now \in 0 .. MaxTime
    /\ \/ capabilityCache = None
       \/ /\ capabilityCache.peer_profile_id \in Peers
          /\ capabilityCache.expires_at \in 0 .. (MaxTime + Lifetime)
          /\ capabilityCache.profile \in Profile

\* Whoever computes it: the two peers of a contact, each calling negotiate
\* with its own advertisement first, get the same profile or the same
\* failure code.  Nothing on the wire lets them compare.
BothSidesAgree ==
    \A p \in Peers : Outcome(p) = Negotiate(remote[p], local)

Place(list, x) == CHOOSE i \in DOMAIN list : list[i] = x

\* The tuple selected by preference sum and tie-break is one no other common
\* tuple beats in both lists.
NoTupleBothPrefer ==
    \A p \in Peers : IsAgreed(Outcome(p)) =>
        LET mine   == local.codec_preferences
            theirs == remote[p].codec_preferences
            chosen == Outcome(p).profile.codec
        IN  \A t \in ToSet(mine) \cap ToSet(theirs) :
               \/ Place(mine, chosen) <= Place(mine, t)
               \/ Place(theirs, chosen) <= Place(theirs, t)

\* What both agree on serves both: the profile's maxima are positive and within
\* both advertisements, its codec and schema are listed by both, and no extension
\* either side declares critical is missing from it.
ProfileServesBoth ==
    \A p \in Peers : IsAgreed(Outcome(p)) =>
        LET profile == Outcome(p).profile
        IN  \A c \in {local, remote[p]} :
               /\ profile.protocol \in ToSet(c.protocol_generations)
               /\ profile.codec \in ToSet(c.codec_preferences)
               /\ profile.codec.schema_fingerprint \in ToSet(c.schema_fingerprints)
               /\ profile.max_operation_octets \in 1 .. c.max_operation_octets
               /\ profile.max_data_payload_octets \in 1 .. c.max_data_payload_octets
               /\ profile.receipt_levels \subseteq c.receipt_levels
               /\ CriticalIds(c) \subseteq profile.extensions

\* A contact goes on with what was last negotiated with that very peer, no
\* longer ago than a profile is kept: never with the profile of the other
\* peer that holds, or has evicted it from, the only place in the store.
NeverAnotherPeersProfile ==
    contact # None =>
        LET last == history[contact.peer]
        IN  /\ last # << >>
            /\ contact.result = last[1].result
            /\ contact.at <= last[1].at + Lifetime

=============================================================================
