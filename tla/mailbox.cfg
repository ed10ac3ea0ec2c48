CONSTANTS
    c1 = c1
    consumer = consumer
    k1 = k1
    Callers = {c1, consumer}
    Consumer = consumer
    Sinks = {k1}
    None = None
SPECIFICATION FairSpec
INVARIANTS
    NobodyForgotten
PROPERTIES
    CloseEndsCalls
    SinkToldOnce
CHECK_DEADLOCK FALSE
