SPECIFICATION Spec
CONSTANTS
    ServerSender = {s1, s2}
    ClientSender = {c1}
    ServerFrames = 2
    ClientFrames = 2
    DigestCount = 1
    Damage = {"body", "digest"}
    MaxDamage = 1
    MayTimeOut = {"client"}
    MayStall = {}
    MayLoseClock = {}
    Closer = {}
    None = None
INVARIANT SendNeverBlocks
PROPERTIES ImplementsDelivery SendReturns
CHECK_DEADLOCK FALSE
