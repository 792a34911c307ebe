SPECIFICATION ServiceSpec
CONSTANTS
    MaxAccepts = 2
    MaxStarts = 1
    CreateFails = FALSE
    FailedHandle = {"zero"}
INVARIANTS InstanceHasItsSocket
CHECK_DEADLOCK FALSE
