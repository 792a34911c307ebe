SPECIFICATION ReceiveSpec
CONSTANTS
    Type = {t1, t2}
    MaxArrivals = 3
    MaxCalls = 3
    ClockMayFail = TRUE
    None = None
INVARIANTS AnswersAreTheirs TrueMeansReceived
CHECK_DEADLOCK FALSE
