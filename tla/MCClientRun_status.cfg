SPECIFICATION RunSpec
CONSTANTS
    Clients = {a}
    Cids = {c1}
    Exchanges = {1, 2}
    MaximumWait = 2
INVARIANT
    AnsweredRunReturns
CHECK_DEADLOCK FALSE
