SPECIFICATION Spec
CONSTANTS
    MaxCapabilityProtocols = 2
    MaxCapabilitySchemas = 2
    MaxCapabilityCodecs = 3
    MaxExtensions = 2
    MaxOperationOctets = 4
    MaxRepresentationOctets = 8
    Peers = {p, q}
    p = p
    q = q
    PeerOffers <- MCPeerOffers
    LaterOffers <- MCLaterOffers
    Offers <- MCOffers
    Lifetime = 1
    MaxTime = 2
    None = None
INVARIANTS
    BothSidesAgree
    NoTupleBothPrefer
    ProfileServesBoth
    NeverAnotherPeersProfile
