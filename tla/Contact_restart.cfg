SPECIFICATION Spec
CONSTANTS
    Lengths = {3}
    CapabilitiesSize = 1
    SummarySize = 1
    OfferSize = 2
    RequestSize = 1
    ReceiptSize = 1
    DataOverhead = 1
    Budgets = {3, 8}
    RecordLimits = {2, 4}
    MaxReplays = 2
    Connections = {TRUE, FALSE}
    FullRestarts = {first}
    first = first
    None = None
    MaxDisturbances = 3
INVARIANT SenderTransitionsLegal
