SPECIFICATION Spec
CONSTANTS
    N = 2
    MaxConnections = 2
    MaxErrors = 1
PROPERTY
    AcceptsAll
CHECK_DEADLOCK FALSE
