SPECIFICATION Spec
CONSTANTS
    NFds = 2
    Listener <- FirstListens
INVARIANTS
    CountMatchesSets
PROPERTIES
    TimeoutMissesNothing
    ReadyEndsSelect
CHECK_DEADLOCK FALSE
