SPECIFICATION Spec
CONSTANTS
    Clients = {a, b}
    Cids = {c2}
    GeneratedCids = {c2}
    Addresses = {x1, x2}
    Null = Null
    FreeBlock = FreeBlock
    Capacity = 2
    MaximumWait = 1
    MaxExchanges = 3
    MaxRetransmissions = 1
SYMMETRY Symmetry
INVARIANTS
    TypeOK
    BoundByItsClient
    RefusedIsNotBound
    EstablishedIsConfirmed
PROPERTY
    ImplementsKeyEstablishment
CHECK_DEADLOCK FALSE
