SPECIFICATION Spec
CONSTANTS
    Installers = {i1}
    Removers = {}
    Old = Old
    Nothing = Nothing
    Broken = Broken
    NoOne = NoOne
    MaxFaults = 2
    MaxCrashes = 0
    MaxInterrupts = 0
INVARIANT FailureRestores
CHECK_DEADLOCK FALSE
