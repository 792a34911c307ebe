SPECIFICATION Spec
CONSTANTS
    MaxEvents = 4
    MaxCount = 2
    Null = Null
INVARIANTS InOrderOnce
PROPERTIES DropsOnlyBeyondWindow AcceptedIsExecuted DeleteReturns
CHECK_DEADLOCK FALSE
