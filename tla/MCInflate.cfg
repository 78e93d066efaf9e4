SPECIFICATION FairSpec
CONSTANTS
    kMaxTelemetryData = 3
    Lengths <- SmallLengths
    Endings = {"complete", "corrupt", "truncated"}
    Memory = 100
    Wrap = 32
INVARIANT TypeOK
INVARIANT InBuffer
INVARIANT WholeOrNothing
INVARIANT BoundedBuffer
INVARIANT ThrowsForCause
PROPERTY Ends
