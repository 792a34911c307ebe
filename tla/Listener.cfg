SPECIFICATION ServiceSpec
CONSTANTS
    MaxAccepts = 3
    MaxStarts = 2
    CreateFails = TRUE
    FailedHandle = {"zero"}
INVARIANTS StoppedMeansDeaf
PROPERTIES NoSecondListener StopReturns StopEndsInstances
CHECK_DEADLOCK FALSE
