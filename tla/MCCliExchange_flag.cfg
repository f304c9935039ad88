SPECIFICATION Spec
CONSTANTS
    Clients = {a}
    Cids = {c1}
    Exchanges = {1, 2}
    MaximumWait = 2
INVARIANT
    FlagTellsError
CHECK_DEADLOCK FALSE
