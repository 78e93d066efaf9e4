SPECIFICATION Spec
CONSTANTS
    c1 = c1
    c2 = c2
    f1 = f1
    f2 = f2
    n1 = n1
    n2 = n2
    NoFile = NoFile
    NoName = NoName
    Nobody = Nobody
    Converters = {c1, c2}
    Files = {f1, f2}
    Names = {n1, n2}
    NameOf <- DistinctNames
    Streamed = {f2}
    Faults = {"rename", "process", "remove"}
    MaxCrashes = 2
SYMMETRY ConverterSymmetry
CHECK_DEADLOCK FALSE
INVARIANT TypeOK
INVARIANT NoLostWakeup
INVARIANT ExclusiveClaim
INVARIANT AtMostOnce
INVARIANT NoFileLost
PROPERTY ImplementsDelivery
