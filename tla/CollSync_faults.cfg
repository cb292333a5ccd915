SPECIFICATION FairSpec
CONSTANTS
    History <- MCHistory
    PageLimit = 2
    None = None
    MaxDisturbances = 3
CHECK_DEADLOCK FALSE
INVARIANTS
    CheckpointIsAuthoritative
    PagesNeverConflict
PROPERTIES
    ImplementsReplica
    EventuallyCaughtUp
