SPECIFICATION Spec
CONSTANTS
    Installers = {i1}
    Removers = {}
    Old = Old
    Nothing = Nothing
    Broken = Broken
    NoOne = NoOne
    MaxFaults = 0
    MaxCrashes = 0
    MaxInterrupts = 0
INVARIANT RepairReplaces
CHECK_DEADLOCK FALSE
