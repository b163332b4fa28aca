SPECIFICATION Spec
CONSTANTS
    Requests = {r1, r2}
    NoRequest = NoRequest
    Kinds = {"command", "badTimeout"}
    MaxConnections = 1
    MaxPending = 1
    MaxStops = 0
INVARIANT BoundedThenMarshalled
CHECK_DEADLOCK FALSE
