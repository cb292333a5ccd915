SPECIFICATION FairSpec
CONSTANTS
    Size = 3
    Contacts <- MCContacts
    MaxFaults = 3
INVARIANTS
    ReceiptAfterCommit
    UsefulOnce
    RequestLeavesRoom
    CeilingBeforeData
PROPERTIES
    ImplementsTransfer
    EventuallyReceipted
