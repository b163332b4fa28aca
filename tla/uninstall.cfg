SPECIFICATION RemoverSpec
CONSTANTS
    Installers = {i1}
    Removers = {r1, r2}
    Old = Old
    Nothing = Nothing
    Broken = Broken
    NoOne = NoOne
    MaxFaults = 1
    MaxCrashes = 1
    MaxInterrupts = 1
CONSTRAINT OneFailure
SYMMETRY Symmetry
INVARIANTS RemovalTypeOK RemovalFailureRestores CapturedBytesSurvive RemovedIsForgotten RemovalIsFinal
PROPERTY ForeignKept
CHECK_DEADLOCK FALSE
