CONSTANTS
    Tasks = {t1, t2}
    NoId = NoId
    FirstYear = 2026
    LastYear = 2026
    MaxSubmits = 1
    Types = {crashloop}
    PostIds <- MCPostIds
    KnownTypes = {crashloop}
SPECIFICATION Spec
INVARIANT
    ConsentAlwaysSawTheCard
