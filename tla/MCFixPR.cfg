CONSTANTS
    Tasks = {t1, t2, t3}
    Ids = {i1}
    Kinds = {memory_limit, manual}
    None = None
    Absent = Absent
SPECIFICATION Spec
INVARIANTS
    ReviewShowsItsIncident
    MergedWasReviewed
PROPERTY
    ReviewIsFinal
