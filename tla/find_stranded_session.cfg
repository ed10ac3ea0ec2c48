CONSTANTS
    plain = plain
    joined = joined
    Sessions = {plain}
    Plain = {plain}
    Busy = {plain}
    MaxSessions = 1
    MaxId = 3
    None = None
SPECIFICATION FairSpec
PROPERTY ReleaseAllEndsSessions
CHECK_DEADLOCK FALSE
