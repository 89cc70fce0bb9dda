CONSTANTS
    c1 = c1
    c2 = c2
    c3 = c3
    a = a
    b = b
    x = x
    y = y
    None = None
    Quic <- QuicValue
    Stream <- StreamValue
    MaxStreams = 1
    Conn <- ConnValue
    Client = {a}
    PreferredID = {1}
    MaxClients = 1
SPECIFICATION Spec
INVARIANTS StreamLimitPerClient
CHECK_DEADLOCK FALSE
