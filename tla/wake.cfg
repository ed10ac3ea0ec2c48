CONSTANTS
    r1 = r1
    r2 = r2
    r3 = r3
    Routes = {r1, r2, r3}
    First = r1
    MaxSends = 4
    MaxCalls = 2
SPECIFICATION FairSpec
INVARIANTS
    NoLostWakeup
    NoCallbackLeftBehind
PROPERTIES
    LastRouteEndsSession
CHECK_DEADLOCK FALSE
