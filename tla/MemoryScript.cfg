SPECIFICATION MCSpec
CONSTANTS
    MaxScripts = 2
    MaxLines = 2
    CreateFails = TRUE
    MaxPieces = 3
    MaxLine = 6
INVARIANTS SuccessMeansExecuted FinishMeansIdle ScriptIsItsCommands
PROPERTIES BusyEnds
