CONSTANTS
    Clients = {c1, c2, c3}
    Bridges = {b1, b2}
    IdleSamples = 2
    LockTimesOut = TRUE
    None = None
SPECIFICATION Spec
INVARIANTS
    NoSpareBridge
PROPERTIES
    ExitDecidedIdle
    EveryOpenReturns
    UnusedBridgeExits
CHECK_DEADLOCK FALSE
