SPECIFICATION Spec
CONSTANTS
    MaxCalls = 3
    UserMask = UserMask
    NoMask = NoMask
INVARIANTS TypeOK EveryMaskKept SelectionIsReported PaintIsReported ContextIsKept
CHECK_DEADLOCK FALSE
