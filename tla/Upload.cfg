SPECIFICATION MCSpec
CONSTANTS
    Client = {c1, c2}
    Path = {p1}
    MaxUploads = 3
    MaxBlocks = 2
    WriteFails = TRUE
    MaxKept = 1
    Capacity = 7
    Lengths = {1, 2, 4}
    MaxEntries = 4
SYMMETRY Clients
INVARIANTS FinishedIsWhole CancelledIsRemoved ListingIsComplete
PROPERTY FinishedStays
CHECK_DEADLOCK FALSE
