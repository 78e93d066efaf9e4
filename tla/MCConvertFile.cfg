SPECIFICATION Spec
CONSTANTS
    Utf8 <- SmallUtf8
    Malformed = Malformed
    Hostname = "host"
    Pid = 200
    SafeChar <- SmallSafeChar
    SpaceChar <- SmallSpaceChar
    CastText <- SmallCastText
    Precision = 2
    magnitude = 100
    Garbage <- SmallGarbage
    Scenarios <- SmallScenarios
CHECK_DEADLOCK FALSE
INVARIANT TypeOK
INVARIANT WrittenInOrder
INVARIANT NumbersNear
INVARIANT LevelsExplained
INVARIANT PathsSeparate
PROPERTY ReportsTell
PROPERTY ImplementsLedger
PROPERTY LossNeedsBrokenLog
