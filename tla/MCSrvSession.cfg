SPECIFICATION Spec
CONSTANTS
    Cids = {c0, c1, c2, c3}
    ZeroCid = c0
    Contexts = {x1, x2}
    Null = Null
    Capacity = 3
INVARIANTS
    TypeOK
    UniqueCids
    SlotsWellFormed
PROPERTY
    ImplementsSessionMap
