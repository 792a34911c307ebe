SPECIFICATION Spec
CONSTANTS
    MaxConns = 2
INVARIANTS TrueMeansAnswered AnswerIsNotMissed NoSocketLeft DestroyedMeansQuiet
PROPERTIES ReceiverLeaves
CHECK_DEADLOCK FALSE
