SPECIFICATION Spec
CONSTANTS
    Client = {c1, c2}
    Panel = "p"
    Modules <- MCModules
    Ftdi <- MCFtdi
    Bytes = 3
    FtdiBytes = 2
    Bit = {0, 1}
    Initial <- MCInitial
    Suspect = {"f1"}
    Request <- MCRequest
    MaxRequests = 3
    Fails <- MCFails
SYMMETRY Clients
CHECK_DEADLOCK FALSE
INVARIANTS
    UndisturbedIsExact
    UnaskedStays
    ChecksumHolds
