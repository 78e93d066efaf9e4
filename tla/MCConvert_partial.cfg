SPECIFICATION Spec
CONSTANTS
    c1 = c1
    c2 = c2
    f1 = f1
    f2 = f2
    f3 = f3
    n1 = n1
    n2 = n2
    n3 = n3
    NoFile = NoFile
    NoName = NoName
    Converters = {c1, c2}
    Files = {f1, f2}
    Names = {n1, n2}
    NameOf <- DistinctNames
    Streamed = {f2}
    Faults = {}
    MaxCrashes = 0
PROPERTY RemovedOnlyIfWhole
CHECK_DEADLOCK FALSE
