SPECIFICATION FairSpec
CONSTANTS
    a = a
    b = b
    NoFile = NoFile
    Octets <- MCOctets
    Encoded <- MCEncoded
    Decodes = TRUE
    Receipts = {1, 2}
    RetryInPlace = FALSE
    MaxSequence = 30
    MaxDisturbances = 4
CHECK_DEADLOCK FALSE
INVARIANTS
    CommitIntegrity
    ReturnIsDurable
    AlwaysReopens
PROPERTIES
    StatusMoves
    ImplementsTransfer
    EventuallyCommitted
