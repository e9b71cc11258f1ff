CONSTANTS
    Tasks = {t1, t2}
    Ids = {i1, i2}
    NoId = NoId
    MaxWrites = 4
SPECIFICATION FairSpec
INVARIANTS
    OnlyAWrittenApproval
PROPERTIES
    KeepsLoosePromise
    KeepsFairLoosePromise
