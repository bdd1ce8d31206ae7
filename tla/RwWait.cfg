SPECIFICATION WaitingSpec
INVARIANT WaitTakesNothing
CHECK_DEADLOCK FALSE
