CONSTANTS
    h1 = h1
    c1 = c1
    t1 = t1
    t2 = t2
    Handles = {h1}
    Closures = {c1}
    Threads = {t1, t2}
    JoinMayTimeOut = TRUE
    MaxFrames = 2
    MaxEra = 3
    MaxAttached = 2
    None = None
SPECIFICATION FairSpec
INVARIANTS
    OneThread
    NothingStranded
    InOrder
    FencedWhileOpen
PROPERTIES
    EveryFrameReleased
    ThreadLeaves
CHECK_DEADLOCK FALSE
