SPECIFICATION Spec
CONSTANTS
    NFds = 1
    Listener <- NoListener
PROPERTIES
    EndOfStreamEndsSelect
CHECK_DEADLOCK FALSE
