SPECIFICATION Spec
CONSTANTS
    MaxJobs = 2
    MaxBlocks = 2
    FailedHandle = {TRUE, FALSE}
INVARIANTS ReadsOwnRequest NotCutShort CancelStops
PROPERTIES WaitEnds CancelEndsMemoryRead
CHECK_DEADLOCK FALSE
