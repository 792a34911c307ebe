SPECIFICATION ReceivingSpec
CONSTANTS
    ServerSender = {s1}
    ClientSender = {c1}
    ServerFrames = 0
    ClientFrames = 2
    DigestCount = 2
    Damage = {"body"}
    MaxDamage = 1
    MayTimeOut = {"client"}
    MayStall = {"client"}
    MayLoseClock = {"client"}
    Closer = {"client", "server"}
    None = None
INVARIANTS AcceptedOnceInOrder TrueMeansAccepted
PROPERTIES CloseIsNoticed
CHECK_DEADLOCK FALSE
