CONSTANTS
    Callers = {c1, c2}
    Threshold = 2
    Timeout = 2
    Decorators <- MCDecorators
SPECIFICATION FairSpec
INVARIANTS
    SerialContract
    FullCountTrips
    AttemptsReachFn
PROPERTIES
    OpenHolds
    OperationsEnd
    Recovers
