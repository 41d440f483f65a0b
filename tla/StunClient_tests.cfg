CONSTANT DefaultTimeout = 2
SPECIFICATION Spec
INVARIANTS TypeOK MappingSound FilteringSound RegistersWithServer AllAttemptsMade ResponseHasTest
PROPERTIES ClassifiedOnce Completes
CHECK_DEADLOCK FALSE
