CONSTANTS
    Tasks = {t1, t2}
    NoId = NoId
    FirstYear = 2026
    LastYear = 2027
    MaxSubmits = 1
    Types = {crashloop}
    PostIds <- MCPostIds
    KnownTypes = {crashloop}
SPECIFICATION FairSpec
INVARIANTS
    NoSilentApply
    ChangeLeavesTraces
    RowTellsOutcome
    UnapprovedIsEscalated
    SuggestedFixWasApproved
PROPERTIES
    UsesStore
    KeepsIncidentPromise
    IncidentsEnd
