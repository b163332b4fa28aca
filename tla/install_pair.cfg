SPECIFICATION Spec
CONSTANTS
    Installers = {i1, i2}
    Removers = {}
    Old = Old
    Nothing = Nothing
    Broken = Broken
    NoOne = NoOne
    MaxFaults = 2
    MaxCrashes = 1
    MaxInterrupts = 1
SYMMETRY Symmetry
INVARIANTS TypeOK OneFailureRestores AcknowledgedStays OneWinner
PROPERTY LastCopyKept
CHECK_DEADLOCK FALSE
