CONSTANTS
    c1 = c1
    c2 = c2
    c3 = c3
    a = a
    b = b
    x = x
    y = y
    None = None
    Quic <- QuicValue
    Stream <- StreamValue
    MaxStreams = 1
    Conn <- ConnValue
    Client <- ClientValue
    PreferredID = {0, 1}
    MaxClients = 1
SYMMETRY Symmetry
SPECIFICATION Spec
INVARIANTS TypeOK ClientLimit StreamAccounting EmptySessionAccounted SupersededEnds
PROPERTIES RemovesOnlyOwnChannel
CHECK_DEADLOCK FALSE
