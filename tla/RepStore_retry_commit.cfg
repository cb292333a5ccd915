SPECIFICATION Spec
CONSTANTS
    a = a
    b = b
    NoFile = NoFile
    Octets <- MCOctets
    Encoded <- MCShort
    Decodes = TRUE
    Receipts = {1}
    RetryInPlace = TRUE
    MaxSequence = 20
    MaxDisturbances = 1
CHECK_DEADLOCK FALSE
PROPERTIES
    CommittedImmutable
