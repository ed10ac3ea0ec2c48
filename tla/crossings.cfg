CONSTANTS
    app = app
    sheet = sheet
    text = text
    Objects <- MCObjects
    Handle <- MCHandle
    Nothing = Nothing
    NonFinite = NonFinite
    IllFormed = IllFormed
    Replaced = Replaced
    IntMax = 7
    Exact = 16
    Members <- MCMembers
    NoIds = NoIds
    Unimplementable <- MCUnimplementable
    Calls <- MCCalls
    Callbacks <- MCCallbacks
    Values <- MCValues
    Libraries <- MCLibraries
    EventSources <- MCEventSources
    None = None
SPECIFICATION Spec
INVARIANTS
    ArgumentsArriveFaithfully
    EventArgsInOrder
    SurvivesReadModifyWrite
    SourceIsTheDefault
CHECK_DEADLOCK FALSE
