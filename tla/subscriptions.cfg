CONSTANTS
    app = app
    sheet = sheet
    Objects <- AppAndSheet
    RootObject = app
    EventSources <- AppAndSheet
    Events = {"change", "close"}
    ArgLists <- Arguments
    MaxId = 3
    MaxSinks = 1
    MaxQueued = 1
    MaxExtra = 1
    Nothing = Nothing
SPECIFICATION FairSpec
INVARIANTS
    AdvisedWhileSubscribed
    SinkHeldWhileAdvised
    TornDownInApartment
    EventArgsResolve
PROPERTIES
    EndedIsUnadvised
CHECK_DEADLOCK FALSE
