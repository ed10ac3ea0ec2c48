CONSTANTS
    h1 = h1
    c1 = c1
    t1 = t1
    t2 = t2
    Handles = {h1}
    Closures = {c1}
    Threads = {t1, t2}
    JoinMayTimeOut = FALSE
    MaxFrames = 2
    MaxEra = 3
    MaxAttached = 3
    None = None
SPECIFICATION Spec
INVARIANT FencedErasStayOut
CHECK_DEADLOCK FALSE
