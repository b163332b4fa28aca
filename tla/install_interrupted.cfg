SPECIFICATION Spec
CONSTANTS
    Installers = {i1}
    Removers = {}
    Old = Old
    Nothing = Nothing
    Broken = Broken
    NoOne = NoOne
    MaxFaults = 0
    MaxCrashes = 0
    MaxInterrupts = 1
INVARIANT RollbackRestores
CHECK_DEADLOCK FALSE
