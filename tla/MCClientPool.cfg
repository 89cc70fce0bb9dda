SPECIFICATION ClientSpec
CONSTANTS
    metrics = metrics
    local = local
    w1 = w1
    w2 = w2
    c1 = c1
    c2 = c2
    None = None
    Listener <- ListenerValue
    Early <- EarlyValue
    Worker <- WorkerValue
    Closer <- CloserValue
    s1 = s1
    s2 = s2
    o1 = o1
    Slot <- MCSlot
    Opener <- MCOpener
    MaxSess = 2
    Retries = 2
    NoSlot = NoSlot
    N = 3
    FailThreshold = 2
    Cooldown = 0
    HostCooldown = 1
    Dialer <- MCSlot
INVARIANTS
    TypeOK
    DoneMeansStopped
    CloseStopsAll
    StreamKeysMatch
    RttOfCurrentSession
    NoEndpointStarves
    FailuresPerCooldown
PROPERTIES
    StopEnds
    DialersReturn
CHECK_DEADLOCK FALSE
