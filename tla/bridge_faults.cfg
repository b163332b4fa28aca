SPECIFICATION ThreadSpec
CONSTANTS
    Requests = {r1, r2}
    NoRequest = NoRequest
    Kinds = {"command", "badTimeout", "malformed", "silent"}
    MaxConnections = 1
    MaxPending = 1
    MaxStops = 1
INVARIANT ConnectionsAccounted
PROPERTIES ImplementsHostCall EveryCallEnds ConnectionsComeBack SlotsComeBack
CHECK_DEADLOCK FALSE
