SPECIFICATION Spec
CONSTANT
    MaxCalls = 4
PROPERTY
    EveryCallIssuesANewCid
CHECK_DEADLOCK FALSE
