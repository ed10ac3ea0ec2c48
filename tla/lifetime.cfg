CONSTANTS
    s1 = s1
    s2 = s2
    s3 = s3
    i2 = i2
    i3 = i3
    Sessions = {s1, s2, s3}
    Instances = {i2, i3}
    Human = {}
    IdentityMayFail = FALSE
    WaitMayFail = TRUE
    NoInstance = NoInstance
    NoKey = NoKey
SPECIFICATION Spec
SYMMETRY SessionSymmetry
INVARIANTS
    StepsRunOnce
    UsersStayRegistered
    InlineShutdownDisturbsNobody
    ClosingHasOwner
    PermissionIsKept
