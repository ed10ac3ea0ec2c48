CONSTANTS
    plain = plain
    joined = joined
    Sessions = {plain, joined}
    Plain = {plain}
    Busy = {plain, joined}
    MaxSessions = 1
    MaxId = 4
    None = None
SPECIFICATION FairSpec
INVARIANTS
    ToldIsRouted
    RoutesResolve
    ParticipantKeepsRoot
PROPERTIES
    EveryRequestAnswered
    TeardownEnds
    ParticipantsEnd
CHECK_DEADLOCK FALSE
