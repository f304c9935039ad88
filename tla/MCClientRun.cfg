SPECIFICATION RunFairSpec
CONSTANTS
    Clients = {a}
    Cids = {c1}
    Exchanges = {1, 2}
    MaximumWait = 6
INVARIANTS
    RunTypeOK
    ResultIsFresh
    VerdictAnswersMessage3
    ReadableErrorRefuses
    CleanupIsComplete
    ReleasedOnce
    ViewIsIntact
    SuccessMeansAnswered
PROPERTY
    RunEnds
CHECK_DEADLOCK FALSE
