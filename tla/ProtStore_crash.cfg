SPECIFICATION FairSpec
CONSTANTS
    Profiles = {p1}
    Receipts = {r1}
    Objects = {o1}
    Digests = {d1, d2}
    Scopes = {s1}
    None = None
    Missing = Missing
    Torn = Torn
    RetryInPlace = FALSE
    MaxSequence = 8
    MaxDisturbances = 4
CHECK_DEADLOCK FALSE
INVARIANTS
    ReturnIsDurable
    RetryAtMostOnce
    AcknowledgedKept
PROPERTIES
    StaysRecoverable
    ImplementsRetainedFacts
    ReceiptsEventuallyRetained
