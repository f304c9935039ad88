SPECIFICATION AccessSpec
CONSTANTS
    LocalAddresses = {udp, tcp}
    Clients = {a, b, c}
    Exchanges = {1, 2, 3, 4}
    ServerCid <- MCServerCid
    ClientCid = 1
    SuiteOf <- MCSuiteOf
    Outsider = Outsider
SYMMETRY Symmetry
INVARIANTS
    AccessTypeOK
    ServesOnlyWhenReady
    TemperatureIsProtected
    ErrorMeansSharedOrRepeated
CHECK_DEADLOCK FALSE
