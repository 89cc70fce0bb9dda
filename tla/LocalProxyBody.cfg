SPECIFICATION ProxySpec
CONSTANTS
    MaxBytes = 3
    BodyLen = 2
INVARIANTS
    PlainBodyForwarded
CHECK_DEADLOCK FALSE
