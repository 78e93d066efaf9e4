SPECIFICATION Spec
CONSTANTS
    c1 = c1
    c2 = c2
    k1 = k1
    k2 = k2
    k3 = k3
    x1 = x1
    n1 = n1
    n2 = n2
    n3 = n3
    s1 = s1
    s2 = s2
    NoText = NoText
    Empty = Empty
    Null = Null
    Absent = Absent
    Converters = {c1}
    Keys = {k1, k2}
    OtherKeys = {x1}
    DiskNames = {n1, n2, n3}
    DiskName <- DistinctDiskNames
    Specs = {s1, s2}
    Invalid = {s2}
    Known = {k1, k2}
    Served <- OwnSpec
    Faults = {}
    MaxCalls = 2
    MaxCrashes = 0
CHECK_DEADLOCK FALSE
PROPERTY InvalidIsCounted
