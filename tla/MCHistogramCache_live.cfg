SPECIFICATION FairSpec
CONSTANTS
    c1 = c1
    c2 = c2
    k1 = k1
    k2 = k2
    k3 = k3
    x1 = x1
    n1 = n1
    n2 = n2
    n3 = n3
    s1 = s1
    s2 = s2
    NoText = NoText
    Empty = Empty
    Null = Null
    Absent = Absent
    Converters = {c1, c2}
    Keys = {k1, k2}
    OtherKeys = {}
    DiskNames = {n1, n2, n3}
    DiskName <- DistinctDiskNames
    Specs = {s1, s2}
    Invalid = {}
    Known = {k1, k2}
    Served <- SameSpec
    Faults = {}
    MaxCalls = 1
    MaxCrashes = 2
CHECK_DEADLOCK FALSE
INVARIANT DamagePerCrash
PROPERTY Heals
