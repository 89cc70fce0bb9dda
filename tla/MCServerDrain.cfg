CONSTANTS
    c1 = c1
    c2 = c2
    c3 = c3
    a = a
    b = b
    x = x
    y = y
    None = None
    Quic <- QuicValue
    Stream <- StreamValue
    MaxStreams = 1
    Conn <- TwoConns
    Client <- ClientValue
    PreferredID = {0, 1}
    MaxClients = 1
SPECIFICATION FairSpec
PROPERTIES LostConnectionDrains
CHECK_DEADLOCK FALSE
