SPECIFICATION Spec
CONSTANTS
    INTERVAL = 5
    MaxQueued = 3
    MaxTime = 20
INVARIANT
    HeldOnlyByMessages
