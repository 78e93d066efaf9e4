SPECIFICATION Spec
CONSTANTS
    plain = plain
    twice = twice
    startup = startup
    prefixed = prefixed
    short = short
    Name = {plain, twice, startup, prefixed, short}
    Startup = {startup}
    Behind <- SmallBehind
    Specs <- SmallSpecs
    kExtraBucketsSize = 2
    Values <- AllValues
    Documents <- SmallDocuments
    Wrap = 16
CHECK_DEADLOCK FALSE
INVARIANT TypeOK
INVARIANT InOrder
INVARIANT BucketsInside
INVARIANT MarkTells
INVARIANT CountsKept
