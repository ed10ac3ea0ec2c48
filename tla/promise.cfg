CONSTANTS
    s1 = s1
    s2 = s2
    s3 = s3
    i1 = i1
    i2 = i2
    i3 = i3
    Sessions = {s1, s2}
    Instances = {i1, i2, i3}
    Human = {i1}
    IdentityMayFail = FALSE
    WaitMayFail = TRUE
    NoInstance = NoInstance
    NoKey = NoKey
SPECIFICATION FairSpec
INVARIANTS
    ShutdownOnlyWhenPermitted
    ConnectOrCreateNeverRefused
PROPERTIES
    KeepsPromise
    AbandonedIsShutDown
