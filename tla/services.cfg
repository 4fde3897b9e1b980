CONSTANT None = None
SPECIFICATION Spec
INVARIANT AnswersTrue
PROPERTIES CallsEnd LeaseOutcomesExact DrainSafe ShutdownEnds CancelReachesHandler
CHECK_DEADLOCK FALSE
