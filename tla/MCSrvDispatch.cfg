SPECIFICATION Spec
CONSTANTS
    Cids = {c1, c2, c3}
    GeneratedCids = {c1, c2, c3}
    Addresses = {x1, x2, x3}
    Null = Null
    FreeBlock = FreeBlock
    Capacity = 2
    MaxExchanges = 4
SYMMETRY Symmetry
INVARIANTS
    TypeOK
    NoLeak
    StoredUnderOwnCid
    PendingWithinCapacity
    AnnouncedExchangeIsPending
    BoundIsNotPending
PROPERTY
    ConfirmationMeansBinding
