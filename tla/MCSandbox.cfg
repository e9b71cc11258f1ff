CONSTANTS
    c1 = c1
    c2 = c2
    Calls <- MCCalls
SPECIFICATION FairSpec
INVARIANTS
    NothingForgotten
    OkMeansItRan
PROPERTY
    CallsEnd
