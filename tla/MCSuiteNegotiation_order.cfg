SPECIFICATION Spec
CONSTANTS
    KnownSuites = {suite0, suite2, suite4}
    Suite0 = suite0
    Suite2 = suite2
    UnknownSuite = UnknownSuite
    NotANumber = NotANumber
    Unwritten = Unwritten
    COM_MAX_SUITES_IDENTIFIERS = 3
    MAX_RENEGOTIATION_SIZE = 10
    MaxArguments = 4
INVARIANT
    ResponderOrderIsIrrelevant
CHECK_DEADLOCK FALSE
