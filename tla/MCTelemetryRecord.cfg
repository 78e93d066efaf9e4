SPECIFICATION FairSpec
CONSTANTS
    Cell = {0, 1, 2, 3, 4}
    kRecordSeparator = 2
    kMaxTelemetryPath = 1
    kMaxTelemetryData = 2
    Body <- SmallBody
    Streams <- SmallStreams
INVARIANT TypeOK
INVARIANT Sound
INVARIANT NoRecordMissed
INVARIANT AllAccounted
PROPERTY Terminates
CHECK_DEADLOCK FALSE
