SPECIFICATION Spec
CONSTANTS
    Cids = {c1, c2}
    GeneratedCids = {c2}
    Addresses = {x1, x2}
    Null = Null
    FreeBlock = FreeBlock
    Capacity = 2
    MaxExchanges = 3
INVARIANT
    ErrorPayloadIsEdhocError
