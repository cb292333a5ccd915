SPECIFICATION Spec
CONSTANTS
    Profiles = {p1}
    Receipts = {r1}
    Objects = {o1}
    Digests = {d1, d2}
    Scopes = {s1}
    None = None
    Missing = Missing
    Torn = Torn
    RetryInPlace = TRUE
    MaxSequence = 7
    MaxDisturbances = 1
CHECK_DEADLOCK FALSE
INVARIANTS
    HasReceiptSurvives
