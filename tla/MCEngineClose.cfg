SPECIFICATION Spec
CONSTANTS
    metrics = metrics
    local = local
    w1 = w1
    w2 = w2
    c1 = c1
    c2 = c2
    None = None
    Listener <- ListenerValue
    Early <- EarlyValue
    Worker <- WorkerValue
    Closer <- CloserValue
INVARIANTS CloseWaitsForGoroutines
CHECK_DEADLOCK FALSE
