SPECIFICATION FairSpec
CONSTANTS
    Starts = {p1, p2}
    Before = Before
    None = None
    Short = Short
    Cap = 3
    Keep = 2
    Tries = 2
    MaxFaults = 2
    MaxKills = 1
INVARIANTS TypeOK LogBounded CaptureIsAtomic TokenShared
PROPERTY EveryStartEnds
CHECK_DEADLOCK FALSE
