SPECIFICATION Spec
CONSTANTS
    INTERVAL = 5
    SLACK = 1
    MaxVersion = 3
    NoReply = NoReply
    Failure = Failure
    NoFile = NoFile
    Torn = Torn
INVARIANTS
    SettingsTypeOK
    WholeUnlessFailed
    SettingsInv
PROPERTIES
    FetchesSpaced
    ReadersAdvance
    Refreshes
    StopsWhenCancelled
