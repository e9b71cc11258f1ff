CONSTANTS
    t1 = t1
    t2 = t2
    i1 = i1
    i2 = i2
    Tasks <- MCTasks
    Ids <- MCIds
    NoId = NoId
    MaxSubmits = 2
SPECIFICATION FairSpec
INVARIANTS
    TypeOK
    SingleUse
    NoStaleFuture
    Answerable
PROPERTIES
    FirstAnswerWins
    LastWordCounts
    KeepsPromise
    KeepsFairPromise
