SPECIFICATION Spec
CONSTANTS
    Requests = {r1, r2, r3}
    NoRequest = NoRequest
    Kinds = {"command"}
    MaxConnections = 2
    MaxPending = 1
    MaxStops = 0
SYMMETRY Symmetry
INVARIANTS TypeOK SlotsAccounted ResponseIsTrue WaitIsJustified
PROPERTY NoLateStart
CHECK_DEADLOCK FALSE
